---- MODULE Spec2Model ----
(***************************************************************************)
(* Model of koenvanwijk/teleop-latency-monitor: the ping/pong latency      *)
(* decomposition of the four probe loops (operator_client.latency_loop,    *)
(* web_monitor.latency_collector, the page script of web_monitor and the   *)
(* dashboard script of simple_web_monitor) and the dashboard's clock       *)
(* synchronisation run.                                                    *)
(*                                                                         *)
(* Numbers.  The programs compute with floats; the model computes with     *)
(* exact rationals held as integers:                                       *)
(*   - a value in SECONDS (ping t0, pong t1, t2) is counted in ticks of    *)
(*     1/100000 s (0.01 ms);                                               *)
(*   - a value in MILLISECONDS (rtt_ms, one_way_ms, uplink_ms, Date.now(), *)
(*     server_time, clockOffset) is counted in units of 1/200 ms.          *)
(* `x * 1000.0` therefore is SecToMs(x) = 2 * x and `x / 1000.0` is        *)
(* MsToSec(x) = x \div 2 (exact on whole milliseconds).  Float             *)
(* representation error is not modelled.                                   *)
(***************************************************************************)
EXTENDS Integers, Sequences, FiniteSets, TLC

\* ------------------------------------------------------------------ values

\* n whole milliseconds as a millisecond quantity (units of 1/200 ms)
Ms(n) == n * 200

\* n whole seconds as a seconds quantity (ticks of 1/100000 s)
Sec(n) == n * 100000

\* rtt * 1000.0 : seconds to milliseconds
SecToMs(x) == x * 2

\* Date.now() / 1000.0 : milliseconds to seconds
MsToSec(x) == x \div 2

Abs(x) == IF x < 0 THEN -x ELSE x

\* A JSON / JavaScript / Python value as far as the code inspects it.
Number(v) == [typeof |-> "number", val |-> v]
null == [typeof |-> "null", val |-> 0]
NonNumeric == [typeof |-> "string", val |-> 0]

\* typeof x === 'number'  /  isinstance(x, (int, float))
IsNumber(x) == x.typeof = "number"

\* JavaScript truthiness of a number-or-null: `x ? a : b`
Truthy(x) == IsNumber(x) /\ x.val # 0

\* One decimal place of a millisecond quantity: 0.1 ms
OneDecimal == Ms(1) \div 10

\* JavaScript x.toFixed(1): nearest multiple of 0.1, a tie goes away from zero.
ToFixed1(x) ==
    LET n == (2 * Abs(x) + OneDecimal) \div (2 * OneDecimal)
    IN  IF x < 0 THEN -(n * OneDecimal) ELSE n * OneDecimal

\* Python round(x, 1) and the format {x:6.1f}: nearest multiple of 0.1, a tie
\* goes to the even digit.
PyRound1(x) ==
    LET q == Abs(x) \div OneDecimal
        r == Abs(x) % OneDecimal
        n == IF 2 * r < OneDecimal THEN q
             ELSE IF 2 * r > OneDecimal THEN q + 1
             ELSE IF q % 2 = 0 THEN q ELSE q + 1
    IN  IF x < 0 THEN -(n * OneDecimal) ELSE n * OneDecimal

\* The sanity bound of the dashboard's decomposition, in milliseconds.
SANITY_MS == 10000

\* ------------------------------------------------------- latency decomposer

\* SkewAnomaly with the 10 s bound written in seconds where milliseconds are
\* compared.
SkewAnomaly_BoundInSeconds(up, down) ==
    Abs(up) > Ms(SANITY_MS \div 1000) \/ Abs(down) > Ms(SANITY_MS \div 1000)

\* Math.abs(uplink_ms) > 10000 || Math.abs(downlink_ms) > 10000
SkewAnomaly(up, down) == Abs(up) > Ms(SANITY_MS) \/ Abs(down) > Ms(SANITY_MS)

\* PongCalc with the one-way estimate taken from the pong's t1 when it has one.
PongCalc_OneWayFromT1(t0, t1, t2) ==
    LET rtt == t2 - t0
        rtt_ms == SecToMs(rtt)
        up == SecToMs(t1.val - t0)
        down == SecToMs(t2 - t1.val)
        one_way_ms == IF IsNumber(t1) THEN up ELSE rtt_ms \div 2
        anomaly == IsNumber(t1) /\ SkewAnomaly(up, down)
    IN  [rtt |-> rtt, rtt_ms |-> rtt_ms, one_way_ms |-> one_way_ms,
         fallback |-> anomaly,
         uplink_ms |-> IF ~IsNumber(t1) THEN null
                       ELSE IF anomaly THEN Number(one_way_ms) ELSE Number(up),
         downlink_ms |-> IF ~IsNumber(t1) THEN null
                         ELSE IF anomaly THEN Number(one_way_ms) ELSE Number(down)]

\* The local variables of simple_web_monitor's handlePongResponse after its
\* `if (typeof t1 === 'number')` block: t0 is pendingPings[id], t1 is data.t1.
PongCalc(t0, t1, t2) ==
    LET rtt == t2 - t0
        rtt_ms == SecToMs(rtt)
        one_way_ms == rtt_ms \div 2
        up == SecToMs(t1.val - t0)
        down == SecToMs(t2 - t1.val)
        anomaly == IsNumber(t1) /\ SkewAnomaly(up, down)
    IN  [rtt |-> rtt, rtt_ms |-> rtt_ms, one_way_ms |-> one_way_ms,
         fallback |-> anomaly,
         uplink_ms |-> IF ~IsNumber(t1) THEN null
                       ELSE IF anomaly THEN Number(one_way_ms) ELSE Number(up),
         downlink_ms |-> IF ~IsNumber(t1) THEN null
                         ELSE IF anomaly THEN Number(one_way_ms) ELSE Number(down)]

\* `x ? parseFloat(x.toFixed(1)) : null`
FixedOrNull(x) == IF Truthy(x) THEN Number(ToFixed1(x.val)) ELSE null

\* The measurement object simple_web_monitor's handlePongResponse builds and
\* hands to updateDisplay.
PongMeasurement(c) ==
    [rtt_ms |-> ToFixed1(c.rtt_ms),
     one_way_ms |-> ToFixed1(c.one_way_ms),
     uplink_ms |-> FixedOrNull(c.uplink_ms),
     downlink_ms |-> FixedOrNull(c.downlink_ms)]

\* PageCalc with the two legs exchanged.
PageCalc_LegsSwapped(t0, t1, t2) ==
    LET rtt == t2 - t0
        rtt_ms == SecToMs(rtt)
    IN  [rtt |-> rtt, rtt_ms |-> rtt_ms, one_way_ms |-> rtt_ms \div 2,
         fallback |-> FALSE,
         uplink_ms |-> IF IsNumber(t1) THEN Number(SecToMs(t2 - t1.val)) ELSE null,
         downlink_ms |-> IF IsNumber(t1) THEN Number(SecToMs(t1.val - t0)) ELSE null]

\* The local variables of web_monitor's page script handlePongResponse: the
\* same split without the sanity check.
PageCalc(t0, t1, t2) ==
    LET rtt == t2 - t0
        rtt_ms == SecToMs(rtt)
    IN  [rtt |-> rtt, rtt_ms |-> rtt_ms, one_way_ms |-> rtt_ms \div 2,
         fallback |-> FALSE,
         uplink_ms |-> IF IsNumber(t1) THEN Number(SecToMs(t1.val - t0)) ELSE null,
         downlink_ms |-> IF IsNumber(t1) THEN Number(SecToMs(t2 - t1.val)) ELSE null]

\* LoopCalc with the isinstance test on t1 left out.
LoopCalc_T1Unchecked(t0, t0_resp, t1, t2) ==
    LET rtt == t2 - t0
        rtt_ms == SecToMs(rtt)
        both == IsNumber(t0_resp)
    IN  [rtt |-> rtt, rtt_ms |-> rtt_ms, one_way_ms |-> rtt_ms \div 2,
         fallback |-> FALSE,
         uplink_ms |-> IF both THEN Number(SecToMs(t1.val - t0_resp.val)) ELSE null,
         downlink_ms |-> IF both THEN Number(SecToMs(t2 - t1.val)) ELSE null]

\* The local variables of latency_collector and latency_loop after the
\* isinstance test: t0 is the loop's own send time, t0_resp and t1 come from
\* the pong.
LoopCalc(t0, t0_resp, t1, t2) ==
    LET rtt == t2 - t0
        rtt_ms == SecToMs(rtt)
        both == IsNumber(t0_resp) /\ IsNumber(t1)
    IN  [rtt |-> rtt, rtt_ms |-> rtt_ms, one_way_ms |-> rtt_ms \div 2,
         fallback |-> FALSE,
         uplink_ms |-> IF both THEN Number(SecToMs(t1.val - t0_resp.val)) ELSE null,
         downlink_ms |-> IF both THEN Number(SecToMs(t2 - t1.val)) ELSE null]

\* `round(x, 1) if x is not None else None`
RoundOrNone(x) == IF IsNumber(x) THEN Number(PyRound1(x.val)) ELSE null

\* CollectorMeasurement cutting the digits after the first decimal instead of
\* rounding.
CollectorMeasurement_Truncates(c) ==
    [rtt_ms |-> (c.rtt_ms \div OneDecimal) * OneDecimal,
     one_way_ms |-> (c.one_way_ms \div OneDecimal) * OneDecimal,
     uplink_ms |-> RoundOrNone(c.uplink_ms),
     downlink_ms |-> RoundOrNone(c.downlink_ms)]

\* The measurement dict latency_collector appends to latency_history.
CollectorMeasurement(c) ==
    [rtt_ms |-> PyRound1(c.rtt_ms),
     one_way_ms |-> PyRound1(c.one_way_ms),
     uplink_ms |-> RoundOrNone(c.uplink_ms),
     downlink_ms |-> RoundOrNone(c.downlink_ms)]

\* The capacity of web_monitor's latency_history.
MAX_HISTORY == 100

\* HistoryAppend removing the newest entry of a full list.
HistoryAppend_PopsNewest(history, measurement) ==
    IF Len(history) + 1 > MAX_HISTORY THEN history ELSE Append(history, measurement)

\* latency_history.append(measurement), then pop(0) when longer than
\* MAX_HISTORY
HistoryAppend(history, measurement) ==
    LET appended == Append(history, measurement)
    IN  IF Len(appended) > MAX_HISTORY THEN Tail(appended) ELSE appended

\* Array.prototype.reverse
Reverse(s) == [i \in 1 .. Len(s) |-> s[Len(s) + 1 - i]]

\* s.slice(-n) in the page, s[-n:] in Python: a copy of the last n elements,
\* of all when there are fewer
Slice(s, n) == IF Len(s) <= n THEN s ELSE SubSeq(s, Len(s) - n + 1, Len(s))

\* How many measurements api_history returns.
API_HISTORY == 50

\* How many measurements websocket_handler sends to a client that connects.
WS_HISTORY == 20

\* web_monitor api_history: the JSON array of the response
api_history(history) == Slice(history, API_HISTORY)

\* web_monitor websocket_handler: the messages sent to the new client, in the
\* order sent
websocket_handler(history) == Slice(history, WS_HISTORY)

\* The line latency_loop prints: uplink and downlink only when both are set.
LoopPrinted(c) ==
    LET both == IsNumber(c.uplink_ms) /\ IsNumber(c.downlink_ms)
    IN  [rtt_ms |-> PyRound1(c.rtt_ms),
         one_way_ms |-> PyRound1(c.one_way_ms),
         uplink_ms |-> IF both THEN RoundOrNone(c.uplink_ms) ELSE null,
         downlink_ms |-> IF both THEN RoundOrNone(c.downlink_ms) ELSE null]

\* ------------------------------------------------------ clock synchroniser

\* The loop bound of synchronizeClocks.
numSamples == 10

\* The per-sample timeout of synchronizeClocks, in milliseconds.
SAMPLE_TIMEOUT == 1000

\* The pause between two samples of synchronizeClocks, in milliseconds.
SAMPLE_DELAY == 50

\* The delay before onclose calls connectToRobot again, in milliseconds.
RECONNECT_DELAY == 3000

\* The period of the measurement timer of startMeasurements, in milliseconds.
TEST_INTERVAL == 60000

\* SampleOffset taking the server's stamp for the server's time at t0.
SampleOffset_IgnoresRtt(t0, t1, serverTime) == serverTime - t0

\* SampleOffset subtracting the whole round trip instead of half of it.
SampleOffset_WholeRtt(t0, t1, serverTime) ==
    LET rtt == t1 - t0
        estimatedServerTimeAtT0 == serverTime - rtt
    IN  estimatedServerTimeAtT0 - t0

\* The offset the handler of synchronizeClocks computes for a reply received
\* at t1 = Date.now() to the request sent at t0 (all in milliseconds).
SampleOffset(t0, t1, serverTime) ==
    LET rtt == t1 - t0
        estimatedServerTimeAtT0 == serverTime - (rtt \div 2)
    IN  estimatedServerTimeAtT0 - t0

\* Insert x into the sorted sequence s after every element that does not
\* compare greater (Array.prototype.sort is stable).
RECURSIVE InsertByOffset(_, _)
InsertByOffset(s, x) ==
    IF s = <<>> THEN <<x>>
    ELSE IF Head(s).offset - x.offset > 0 THEN <<x>> \o s
    ELSE <<Head(s)>> \o InsertByOffset(Tail(s), x)

\* clockSyncSamples.sort((a, b) => a.offset - b.offset)
RECURSIVE SortByOffset(_)
SortByOffset(s) ==
    IF s = <<>> THEN <<>>
    ELSE InsertByOffset(SortByOffset(SubSeq(s, 1, Len(s) - 1)), s[Len(s)])

\* MedianIndex taking the last element.
MedianIndex_Last(n) == n - 1

\* Math.floor(clockSyncSamples.length / 2), a 0-based index
MedianIndex(n) == n \div 2

\* ------------------------------------------------------------------ state

VARIABLES
    input,              \* the values one handler is run on (a function on its own)
    output,             \* what that handler computed and recorded, or NoOutput
    now,                \* the browser's Date.now(), in whole milliseconds
    skew,               \* robot clock minus browser clock, a millisecond quantity
    robotUp,            \* the robot server is reading its connections
    outages,            \* how often the robot server has stalled
    ticks,              \* how many single milliseconds have passed in transit
    socks,              \* readyState of every WebSocket the page has created
    toBrowser,          \* per socket, the messages on their way to the page
    strays,             \* pongs put on the wire that no robot server sent
    robotWs,            \* the page's current socket
    toRobot,            \* per socket, the messages on their way to the robot
    listeners,          \* handlers added with addEventListener, in order
    runs,               \* per synchronizeClocks call, where it is
    timers,             \* pending setTimeout / setInterval timers
    clockSyncSamples,
    clockOffset,
    clockSyncComplete,
    measurementInterval, \* the run whose interval timer is held, 0 for null
    pendingPings,       \* set of [id, t0]
    pingCount,          \* ids handed out so far
    measurements,       \* measurements.robot
    syncLog,            \* what the last finished run logged
    lastSample,         \* the handler locals of the last accepted sync reply
    lastPong,           \* the locals of the last handlePongResponse that recorded
    latency_history,    \* web_monitor's list of recent measurements
    conn,               \* one Python connection loop: where it is, what it sent
    others,             \* the six arrays of `measurements` other than robot
    chart,              \* chart.data of the dashboard: labels and datasets
    wire,                \* the connection of a Python client loop: sent, not yet read
    websocket_clients,  \* web_monitor's set of /ws connections
    handlers,           \* per /ws connection: its websocket_handler and its client
    broadcast,          \* the call of broadcast_to_clients in progress, if any
    proxy               \* one websocket_proxy_handler and its two connections

decompVars == <<input, output>>

pyVars == <<latency_history, conn>>

webVars == <<websocket_clients, handlers, broadcast, proxy>>

sideVars == <<others, chart, wire, websocket_clients, handlers, broadcast, proxy>>

envVars == <<now, skew, robotUp, outages, ticks, socks, toBrowser, strays>>

pageVars == <<robotWs, toRobot, listeners, runs, timers, clockSyncSamples,
              clockOffset, clockSyncComplete, measurementInterval, pendingPings,
              pingCount, measurements, syncLog, lastSample, lastPong>>

vars == <<input, output, now, skew, robotUp, outages, ticks, socks, toBrowser, strays,
          robotWs, toRobot, listeners, runs, timers, clockSyncSamples,
          clockOffset, clockSyncComplete, measurementInterval, pendingPings,
          pingCount, measurements, syncLog, lastSample, lastPong,
          latency_history, conn, others, chart, wire,
          websocket_clients, handlers, broadcast, proxy>>

NoOutput == [done |-> FALSE]

NoInput == [impl |-> "none"]

\* ------------------------------------------------------------------ bounds

\* Largest sub-millisecond round trip drawn, in ticks of 0.01 ms.
MaxRttTicks == 12

\* WebSockets the page may create in one behaviour (the first and reconnects).
MaxConns == 2

\* Pings the page may send in one behaviour.
MaxPings == 2

\* Single milliseconds that may pass while a message is in transit.
MaxTicks == 1

\* Milliseconds of the session that are followed.
Horizon == 70000

\* Faults in one behaviour: connections lost plus stalls of the robot server.
MaxFaults == 1

\* Measurements inserted into one window in one behaviour.
MaxInserts == 102

\* Pongs that reach the page without having been sent by the robot server.
MaxStrays == 2

\* How often a client reads the history latency_collector keeps.
MaxViews == 2

\* Longest list of samples the median is taken of on its own.
MaxMedianSamples == 5

SockIds == 1 .. MaxConns

\* Date.now() when the page loads, in milliseconds.
StartTime == 100 * 1000

\* Robot clock minus browser clock: none, 500.03 ms, 20 s.
Skews == {0, Ms(500) + 6, Ms(20000)}

\* --------------------------------------------------------- the page's state

\* The page's globals as one value, so that the statements of one callback
\* can be applied one after the other.
Page ==
    [robotWs |-> robotWs, toRobot |-> toRobot, listeners |-> listeners,
     runs |-> runs, timers |-> timers, clockSyncSamples |-> clockSyncSamples,
     clockOffset |-> clockOffset, clockSyncComplete |-> clockSyncComplete,
     measurementInterval |-> measurementInterval, pendingPings |-> pendingPings,
     pingCount |-> pingCount, measurements |-> measurements, syncLog |-> syncLog,
     lastSample |-> lastSample, lastPong |-> lastPong]

SetPage(p) ==
    /\ robotWs' = p.robotWs
    /\ toRobot' = p.toRobot
    /\ listeners' = p.listeners
    /\ runs' = p.runs
    /\ timers' = p.timers
    /\ clockSyncSamples' = p.clockSyncSamples
    /\ clockOffset' = p.clockOffset
    /\ clockSyncComplete' = p.clockSyncComplete
    /\ measurementInterval' = p.measurementInterval
    /\ pendingPings' = p.pendingPings
    /\ pingCount' = p.pingCount
    /\ measurements' = p.measurements
    /\ syncLog' = p.syncLog
    /\ lastSample' = p.lastSample
    /\ lastPong' = p.lastPong

Message(type, id, t0, t1, server_time) ==
    [type |-> type, id |-> id, t0 |-> t0, t1 |-> t1, server_time |-> server_time]

Timer(kind, at, run, i) == [kind |-> kind, at |-> at, run |-> run, i |-> i]

NoRun == [pc |-> "none", i |-> 0]

\* The capacity of the dashboard's measurement arrays.
WINDOW == 50

PageInit ==
    /\ robotWs = 1
    /\ toRobot = [s \in SockIds |-> <<>>]
    /\ listeners = <<>>
    /\ runs = [s \in SockIds |-> NoRun]
    /\ timers = {}
    /\ clockSyncSamples = <<>>
    /\ clockOffset = 0
    /\ clockSyncComplete = FALSE
    /\ measurementInterval = 0
    /\ pendingPings = {}
    /\ pingCount = 0
    /\ measurements = <<>>
    /\ syncLog = "none"
    /\ lastSample = [done |-> FALSE]
    /\ lastPong = [done |-> FALSE]

\* No Python loop is running and nothing has been collected.
NoConn == [pc |-> "none"]

PyInit ==
    /\ latency_history = <<>>
    /\ conn = NoConn

\* The targets the dashboard pings besides the robot (pingTargets), and the
\* keys of `measurements` that hold their results.
PingTargets == {"eindhoven", "amsterdam", "sofia"}

OtherKeys == {t \o "Browser" : t \in PingTargets} \cup {t \o "Server" : t \in PingTargets}

\* Nothing on the connection of a Python client loop.
NoWire == [toServer |-> <<>>, toClient |-> <<>>, extras |-> 0, lost |-> 0]

\* `measurements` with its other arrays empty, the chart as new Chart made it.
\* How many browsers open /ws of web_monitor in one behaviour.
MaxClients == 2

WsIds == 1 .. MaxClients

\* A /ws connection nobody has opened yet.
NoHandler == [pc |-> "none", replay |-> <<>>, received |-> <<>>]

\* No call of broadcast_to_clients is in progress.
NoBroadcast ==
    [pc |-> "idle", data |-> <<>>, used |-> 0, members |-> {}, visited |-> {},
     disconnected |-> {}]

NoProxy == [pc |-> "none"]

\* web_monitor with no /ws client, and no proxied connection.
WebInit ==
    /\ websocket_clients = {}
    /\ handlers = [ws \in WsIds |-> NoHandler]
    /\ broadcast = NoBroadcast
    /\ proxy = NoProxy

SideInit ==
    /\ WebInit
    /\ others = [k \in OtherKeys |-> <<>>]
    /\ chart = [labels |-> [from |-> "none", n |-> 0], robot |-> <<>>,
                others |-> [k \in OtherKeys |-> <<>>]]
    /\ wire = NoWire

EnvInit ==
    /\ now = StartTime
    /\ robotUp = TRUE
    /\ outages = 0
    /\ ticks = 0
    /\ socks = [s \in SockIds |-> IF s = 1 THEN "CONNECTING" ELSE "UNUSED"]
    /\ toBrowser = [s \in SockIds |-> <<>>]
    /\ strays = 0

\* ------------------------------------------------- the page's functions
\* Each takes the page state p (and rs, the sockets' readyState as the callback
\* sees it) and gives the page state after the call.

\* robotWs.send(text): queued on an OPEN socket, dropped on a closed one.
\* (On a CONNECTING socket send throws; the callers test for it.)
Send(p, rs, m) ==
    IF rs[p.robotWs] = "OPEN"
    THEN [p EXCEPT !.toRobot[p.robotWs] = Append(@, m)]
    ELSE p

\* sendPing recording a measurement without waiting for the echo.
sendPing_RecordsAtSend(p, rs) ==
    IF rs[p.robotWs] = "OPEN"
    THEN LET t0 == MsToSec(Ms(now))
             pingId == p.pingCount + 1
         IN  Send([p EXCEPT !.pingCount = pingId,
                            !.pendingPings = @ \cup {[id |-> pingId, t0 |-> t0]},
                            !.measurements = Append(@, PongMeasurement(PongCalc(t0, null, t0)))],
                  rs, Message("ping", pingId, t0, null, 0))
    ELSE p

\* sendPing
sendPing(p, rs) ==
    IF rs[p.robotWs] = "OPEN"
    THEN LET t0 == MsToSec(Ms(now))
             pingId == p.pingCount + 1
         IN  Send([p EXCEPT !.pingCount = pingId,
                            !.pendingPings = @ \cup {[id |-> pingId, t0 |-> t0]}],
                  rs, Message("ping", pingId, t0, null, 0))
    ELSE p

\* The rows of the dashboard's measurement table.
ROWS == 10

\* updateTable showing the last rows in the order of the array.
updateTable_KeepsOrder(robot) ==
    [robot |-> robot, recent |-> Slice(robot, ROWS)]

\* updateTable: the rows it renders, top row first, and measurements.robot as
\* it leaves it. reverse() works in place, on the copy slice() made.
updateTable(robot) ==
    LET copy == Slice(robot, ROWS)
    IN  [robot |-> robot, recent |-> Reverse(copy)]

\* updateDisplay putting the measurement in front of the array.
updateDisplay_PushFront(p, data) ==
    LET pushed == <<data>> \o p.measurements
        shifted == IF Len(pushed) > WINDOW THEN SubSeq(pushed, 1, WINDOW) ELSE pushed
    IN  [p EXCEPT !.measurements = updateTable(shifted).robot]

\* updateDisplay: push onto measurements.robot, shift when longer than 50,
\* then updateTable
updateDisplay(p, data) ==
    LET pushed == Append(p.measurements, data)
        shifted == IF Len(pushed) > WINDOW THEN Tail(pushed) ELSE pushed
    IN  [p EXCEPT !.measurements = updateTable(shifted).robot]

\* handlePongResponse leaving the probe in pendingPings.
handlePongResponse_KeepsPending(p, data) ==
    LET t2 == MsToSec(Ms(now))
        found == {e \in p.pendingPings : e.id = data.id}
    IN  IF found = {} \/ (\A e \in found : e.t0 = 0) THEN p
        ELSE LET e == CHOOSE x \in found : TRUE
                 c == PongCalc(e.t0, data.t1, t2)
                 measurement == PongMeasurement(c)
                 p1 == [p EXCEPT !.lastPong = [done |-> TRUE, id |-> data.id,
                                               t0 |-> e.t0, t1 |-> data.t1, t2 |-> t2,
                                               calc |-> c, measurement |-> measurement,
                                               clockSyncComplete |-> p.clockSyncComplete,
                                               clockOffset |-> p.clockOffset,
                                               syncLog |-> p.syncLog]]
             IN  updateDisplay(p1, measurement)

\* handlePongResponse
handlePongResponse(p, data) ==
    LET t2 == MsToSec(Ms(now))
        found == {e \in p.pendingPings : e.id = data.id}
    IN  IF found = {} \/ (\A e \in found : e.t0 = 0) THEN p
        ELSE LET e == CHOOSE x \in found : TRUE
                 c == PongCalc(e.t0, data.t1, t2)
                 measurement == PongMeasurement(c)
                 p1 == [p EXCEPT !.pendingPings = @ \ found,
                                 !.lastPong = [done |-> TRUE, id |-> data.id,
                                               t0 |-> e.t0, t1 |-> data.t1, t2 |-> t2,
                                               calc |-> c, measurement |-> measurement,
                                               clockSyncComplete |-> p.clockSyncComplete,
                                               clockOffset |-> p.clockOffset,
                                               syncLog |-> p.syncLog]]
             IN  updateDisplay(p1, measurement)

\* robotWs.onmessage
onmessage(p, data) ==
    IF data.type = "pong" THEN handlePongResponse(p, data) ELSE p

\* The promise of sample i of run r resolves: the run goes on to its pause.
Resolve(p, r, i) ==
    IF p.runs[r].pc = "waiting" /\ p.runs[r].i = i
    THEN [p EXCEPT !.runs[r].pc = "delay",
                   !.timers = @ \cup {Timer("delay", now + SAMPLE_DELAY, r, i)}]
    ELSE p

\* A timeout and a reply that leave the listener of the sample attached.
RemoveListener_Leaves(p, l) == p

\* robotWs.removeEventListener('message', handler): only on the current socket
RemoveListener(p, l) ==
    [p EXCEPT !.listeners = SelectSeq(@, LAMBDA x : ~(x = l /\ x.sock = p.robotWs))]

\* The samples are followed: `input` asks that each sample pushed be marked
\* with the run and the attempt whose closure pushed it.
Followed == input.impl = "sync"

\* the `handler` closure of one sample of synchronizeClocks. The sample pushed
\* is { offset, rtt }; `run` and `i` are the call of synchronizeClocks and the
\* attempt the closure belongs to when the samples are followed, and 0
\* otherwise.
handler(p, l, data) ==
    IF data.type = "clock_sync_response" /\ data.t0 = l.t0
    THEN LET t1 == Ms(now)
             rtt == t1 - l.t0
             offset == SampleOffset(l.t0, t1, data.server_time)
             p1 == [p EXCEPT !.clockSyncSamples = Append(@, [offset |-> offset, rtt |-> rtt,
                                       run |-> IF Followed THEN l.run ELSE 0,
                                       i |-> IF Followed THEN l.i ELSE 0]),
                             !.lastSample = [done |-> TRUE, run |-> l.run, i |-> l.i,
                                             t0 |-> l.t0, t1 |-> t1,
                                             server_time |-> data.server_time,
                                             offset |-> offset, rtt |-> rtt]]
         IN  Resolve(RemoveListener(p1, l), l.run, l.i)
    ELSE p

\* The listeners ls of the socket, as they stood when the message event was
\* dispatched, are called in order; one removed meanwhile is skipped.
RECURSIVE CallListeners(_, _, _)
CallListeners(p, ls, data) ==
    IF ls = <<>> THEN p
    ELSE LET l == Head(ls)
             here == \E k \in 1 .. Len(p.listeners) : p.listeners[k] = l
         IN  CallListeners(IF here THEN handler(p, l, data) ELSE p, Tail(ls), data)

\* One iteration of the loop of synchronizeClocks up to its await: the
\* executor of the sample's promise.
StartSample(p, rs, r, i) ==
    LET t0 == Ms(now)
        added == [p EXCEPT !.listeners =
                     Append(@, [sock |-> p.robotWs, run |-> r, i |-> i, t0 |-> t0])]
    IN  IF rs[p.robotWs] = "CONNECTING"
        THEN \* send throws, the promise rejects, synchronizeClocks rejects
             [added EXCEPT !.runs[r] = [pc |-> "threw", i |-> i]]
        ELSE [Send(added, rs, Message("clock_sync", 0, t0, null, 0))
                 EXCEPT !.runs[r] = [pc |-> "waiting", i |-> i],
                        !.timers = @ \cup {Timer("sample", now + SAMPLE_TIMEOUT, r, i)}]

\* synchronizeClocks up to its first await
synchronizeClocks(p, rs, r) ==
    StartSample([p EXCEPT !.clockSyncSamples = <<>>], rs, r, 0)

\* synchronizeClocks after its loop: the median, or the failure
FinishSync(p) ==
    IF Len(p.clockSyncSamples) > 0
    THEN LET sorted == SortByOffset(p.clockSyncSamples)
             medianIndex == MedianIndex(Len(sorted))
         IN  [p EXCEPT !.clockSyncSamples = sorted,
                       !.clockOffset = sorted[medianIndex + 1].offset,
                       !.clockSyncComplete = TRUE,
                       !.syncLog = "complete"]
    ELSE [p EXCEPT !.clockSyncComplete = FALSE, !.syncLog = "failed"]

\* stopMeasurements
stopMeasurements(p) ==
    IF p.measurementInterval # 0
    THEN [p EXCEPT !.timers = {t \in @ : ~(t.kind = "interval" /\ t.run = p.measurementInterval)},
                   !.measurementInterval = 0]
    ELSE p

\* startMeasurements without its clearInterval.
startMeasurements_KeepsTimer(p, rs, r) ==
    [sendPing(p, rs) EXCEPT !.timers = @ \cup {Timer("interval", now + TEST_INTERVAL, r, 0)},
                            !.measurementInterval = r]

\* startMeasurements, called by the run r that finished: runTests() once
\* (its robot ping), then the interval timer
startMeasurements(p, rs, r) ==
    LET cleared == IF p.measurementInterval # 0
                   THEN [p EXCEPT !.timers = {t \in @ : ~(t.kind = "interval"
                                                 /\ t.run = p.measurementInterval)}]
                   ELSE p
        tested == sendPing(cleared, rs)
    IN  [tested EXCEPT !.timers = @ \cup {Timer("interval", now + TEST_INTERVAL, r, 0)},
                       !.measurementInterval = r]

\* synchronizeClocks from the end of a sample's pause: the next sample, or
\* the end of the run and the `.then` of onopen
AfterDelay(p, rs, r) ==
    LET i == p.runs[r].i + 1
    IN  IF i < numSamples
        THEN StartSample(p, rs, r, i)
        ELSE startMeasurements(FinishSync([p EXCEPT !.runs[r] = [pc |-> "done", i |-> i]]),
                               rs, r)

\* --------------------------------------------------------- the robot server

\* time.time() on the robot, in seconds
RobotTime == MsToSec(Ms(now) + skew)

\* handle_robot_connection on one message: the reply, if any
handle_robot_connection(data) ==
    IF data.type = "ping"
    THEN <<Message("pong", data.id, data.t0, Number(RobotTime), 0)>>
    ELSE IF data.type = "clock_sync"
    THEN <<Message("clock_sync_response", 0, data.t0, null, SecToMs(RobotTime))>>
    ELSE <<>>

\* ----------------------------------------------------------------- actions

\* Connections lost and stalls of the robot server so far.
Faults == outages + Cardinality({s \in SockIds : socks[s] = "CLOSED"})

NextDeadline == IF timers = {} THEN -1
                ELSE CHOOSE d \in {t.at : t \in timers} : \A t \in timers : d <= t.at

\* A message that will be handled without waiting for anything.
InTransit ==
    \E s \in SockIds :
        /\ socks[s] = "OPEN"
        /\ toBrowser[s] # <<>> \/ (robotUp /\ toRobot[s] # <<>>)

\* robotWs.onopen
onopen(s) ==
    /\ socks[s] = "CONNECTING"
    /\ LET rs == [socks EXCEPT ![s] = "OPEN"]
       IN  /\ socks' = rs
           /\ SetPage(synchronizeClocks(Page, rs, s))
    /\ UNCHANGED <<decompVars, sideVars, pyVars, strays, now, skew, robotUp, outages, ticks, toBrowser>>

\* robotWs.onclose: the connection failed or was lost
onclose(s) ==
    /\ socks[s] \in {"CONNECTING", "OPEN"}
    /\ Faults < MaxFaults
    /\ socks' = [socks EXCEPT ![s] = "CLOSED"]
    /\ toBrowser' = [toBrowser EXCEPT ![s] = <<>>]
    /\ LET stopped == stopMeasurements(Page)
       IN  SetPage([stopped EXCEPT !.toRobot[s] = <<>>,
                                   !.timers = @ \cup {Timer("reconnect", now + RECONNECT_DELAY, s, 0)}])
    /\ UNCHANGED <<decompVars, sideVars, pyVars, strays, now, skew, robotUp, outages, ticks>>

\* connectToRobot, called by the timer of onclose
connectToRobot ==
    \E t \in timers :
        /\ t.kind = "reconnect" /\ t.at = now
        /\ robotWs < MaxConns
        /\ socks' = [socks EXCEPT ![robotWs + 1] = "CONNECTING"]
        /\ SetPage([Page EXCEPT !.robotWs = robotWs + 1, !.timers = @ \ {t}])
        /\ UNCHANGED <<decompVars, sideVars, pyVars, strays, now, skew, robotUp, outages, ticks, toBrowser>>

\* a message event on socket s: onmessage, then the added listeners
BrowserReceive(s) ==
    /\ socks[s] = "OPEN"
    /\ toBrowser[s] # <<>>
    /\ toBrowser' = [toBrowser EXCEPT ![s] = Tail(@)]
    /\ LET data == Head(toBrowser[s])
           ls == SelectSeq(listeners, LAMBDA l : l.sock = s)
       IN  SetPage(CallListeners(onmessage(Page, data), ls, data))
    /\ UNCHANGED <<decompVars, sideVars, pyVars, strays, now, skew, robotUp, outages, ticks, socks>>

\* the robot server reads one message of connection s and replies
RobotReceive(s) ==
    /\ robotUp
    /\ socks[s] = "OPEN"
    /\ toRobot[s] # <<>>
    /\ toRobot' = [toRobot EXCEPT ![s] = Tail(@)]
    /\ toBrowser' = [toBrowser EXCEPT ![s] = @ \o handle_robot_connection(Head(toRobot[s]))]
    /\ UNCHANGED <<decompVars, sideVars, pyVars, strays, now, skew, robotUp, outages, ticks, socks, robotWs,
                   listeners, runs, timers, clockSyncSamples, clockOffset,
                   clockSyncComplete, measurementInterval, pendingPings, pingCount,
                   measurements, syncLog, lastSample, lastPong>>

\* the 1 s timer of a sample fires
SampleTimeout ==
    \E t \in timers :
        /\ t.kind = "sample" /\ t.at = now
        /\ LET mine == SelectSeq(listeners, LAMBDA l : l.run = t.run /\ l.i = t.i)
               removed == IF mine = <<>> THEN Page ELSE RemoveListener(Page, mine[1])
           IN  SetPage(Resolve([removed EXCEPT !.timers = @ \ {t}], t.run, t.i))
        /\ UNCHANGED <<decompVars, sideVars, pyVars, envVars>>

\* the 50 ms timer between two samples fires
SampleDelayDone ==
    \E t \in timers :
        /\ t.kind = "delay" /\ t.at = now
        /\ LET p == AfterDelay([Page EXCEPT !.timers = @ \ {t}], socks, t.run)
           IN  /\ p.pingCount <= MaxPings
               /\ SetPage(p)
        /\ UNCHANGED <<decompVars, sideVars, pyVars, envVars>>

\* the interval timer of startMeasurements fires: runTests
runTests ==
    \E t \in timers :
        /\ t.kind = "interval" /\ t.at = now
        /\ LET rearmed == [Page EXCEPT !.timers = (@ \ {t})
                              \cup {Timer("interval", now + TEST_INTERVAL, t.run, 0)}]
               p == sendPing(rearmed, socks)
           IN  /\ p.pingCount <= MaxPings
               /\ SetPage(p)
        /\ UNCHANGED <<decompVars, sideVars, pyVars, envVars>>

\* time passes until the next timer is due; a message in transit arrives first
AdvanceToTimer ==
    /\ timers # {}
    /\ now < NextDeadline
    /\ NextDeadline <= StartTime + Horizon
    /\ ~InTransit
    /\ now' = NextDeadline
    /\ UNCHANGED <<decompVars, sideVars, pyVars, strays, skew, robotUp, outages, ticks, socks, toBrowser, pageVars>>

\* a millisecond passes while a message is in transit
Tick ==
    /\ ticks < MaxTicks
    /\ InTransit
    /\ timers # {} => now + 1 <= NextDeadline
    /\ now' = now + 1
    /\ ticks' = ticks + 1
    /\ UNCHANGED <<decompVars, sideVars, pyVars, strays, skew, robotUp, outages, socks, toBrowser, pageVars>>

\* the robot server stops reading (it is busy, or the path to it stalls) with
\* a message waiting for it
RobotStall ==
    /\ robotUp
    /\ Faults < MaxFaults
    /\ \E s \in SockIds : socks[s] = "OPEN" /\ toRobot[s] # <<>>
    /\ robotUp' = FALSE
    /\ outages' = outages + 1
    /\ UNCHANGED <<decompVars, sideVars, pyVars, strays, now, skew, ticks, socks, toBrowser, pageVars>>

\* the robot server reads again
RobotResume ==
    /\ ~robotUp
    /\ robotUp' = TRUE
    /\ UNCHANGED <<decompVars, sideVars, pyVars, strays, now, skew, outages, ticks, socks, toBrowser, pageVars>>

Init ==
    /\ input = NoInput
    /\ output = NoOutput
    /\ skew \in Skews
    /\ EnvInit
    /\ PageInit
    /\ PyInit
    /\ SideInit

Next ==
    \/ \E s \in SockIds : onopen(s)
    \/ \E s \in SockIds : onclose(s)
    \/ connectToRobot
    \/ \E s \in SockIds : BrowserReceive(s)
    \/ \E s \in SockIds : RobotReceive(s)
    \/ SampleTimeout
    \/ SampleDelayDone
    \/ runTests
    \/ AdvanceToTimer
    \/ Tick
    \/ RobotStall
    \/ RobotResume

\* The dashboard session: the page of simple_web_monitor, its sockets and
\* the robot server behind them.
Spec == Init /\ [][Next]_vars

\* ------------------------------------------- the decomposer on its own inputs

\* A pong no robot server sent reaches the page on connection s: a copy of an
\* earlier one, one that was held back, or one for an id the page never used.
DeliverStray(s, id) ==
    /\ socks[s] = "OPEN"
    /\ strays < MaxStrays
    /\ strays' = strays + 1
    /\ toBrowser' = [toBrowser EXCEPT ![s] =
                        Append(@, Message("pong", id, MsToSec(Ms(now)), Number(RobotTime), 0))]
    /\ UNCHANGED <<decompVars, sideVars, pyVars, now, skew, robotUp, outages, ticks, socks, pageVars>>

PongsInit ==
    /\ Init
    /\ skew = Ms(500) + 6

PongsNext ==
    \/ \E s \in SockIds : onopen(s)
    \/ \E s \in SockIds : onclose(s)
    \/ connectToRobot
    \/ \E s \in SockIds : BrowserReceive(s)
    \/ \E s \in SockIds : RobotReceive(s)
    \/ SampleTimeout
    \/ SampleDelayDone
    \/ runTests
    \/ AdvanceToTimer
    \/ RobotStall
    \/ RobotResume
    \/ \E s \in SockIds, id \in 0 .. MaxPings + 1 : DeliverStray(s, id)

\* The dashboard session, with messages that take no time on their way, on a
\* network that also delivers pongs twice, late or for ids of its own.
SpecPongs == PongsInit /\ [][PongsNext]_vars

SyncInit ==
    /\ input = [impl |-> "sync"]
    /\ output = NoOutput
    /\ skew = 0
    /\ EnvInit
    /\ PageInit
    /\ PyInit
    /\ SideInit

SyncNext ==
    \/ \E s \in SockIds : onopen(s)
    \/ \E s \in SockIds : onclose(s)
    \/ connectToRobot
    \/ \E s \in SockIds : BrowserReceive(s)
    \/ \E s \in SockIds : RobotReceive(s)
    \/ SampleTimeout
    \/ SampleDelayDone
    \/ AdvanceToTimer
    \/ RobotStall
    \/ RobotResume

\* The dashboard session up to its first repetition of the tests, with
\* messages that take no time on their way and every sample marked with the
\* run and attempt that pushed it.
SpecSync == SyncInit /\ [][SyncNext]_vars

\* What happens without being asked: time passes up to the next timer, the
\* robot server reads what has reached it and reads again after a stall, and
\* the reconnect timer of onclose fires. Losing a connection, opening one and
\* the passing of single milliseconds in transit are not promised.
Fairness ==
    /\ WF_vars(AdvanceToTimer)
    /\ WF_vars(\E s \in SockIds : RobotReceive(s))
    /\ WF_vars(RobotResume)
    /\ WF_vars(connectToRobot)

\* The dashboard session with its scheduling.
SpecLive == Spec /\ Fairness

Impls == {"latency_loop", "latency_collector", "page", "dashboard"}

\* time.time() and performance.now() resolve below a millisecond; the
\* dashboard's Date.now() / 1000.0 is a whole number of milliseconds.
RttTicks(impl) ==
    IF impl = "dashboard" THEN {0, 100, 300, 1000}
    ELSE (0 .. MaxRttTicks) \cup {1000}

\* t1 - t0 in ticks: within the round trip, ahead by 5 ms, by 505 ms, by
\* exactly and by just over 10 s, and behind by the same.
T1Ahead == {-1, 0, 1, 3, 500, 50500, Sec(10), Sec(10) + 1, Sec(20),
            -Sec(10), -(Sec(10) + 1), -Sec(20)}

DecompInputs ==
    { [impl |-> i, t0 |-> Sec(100), t0_resp |-> r, t1 |-> t1, t2 |-> Sec(100) + d] :
        i \in Impls, d \in (0 .. MaxRttTicks) \cup {100, 300, 1000},
        r \in {Number(Sec(100)), Number(Sec(99)), null},
        t1 \in {Number(Sec(100) + a) : a \in T1Ahead} \cup {null, NonNumeric} }

DecompInit ==
    /\ input \in { x \in DecompInputs :
                     /\ x.t2 - x.t0 \in RttTicks(x.impl)
                     \* only the two Python loops read the echoed t0
                     /\ x.impl \in {"page", "dashboard"} => x.t0_resp = Number(x.t0) }
    /\ output = NoOutput
    /\ skew = 0
    /\ EnvInit
    /\ PageInit
    /\ PyInit
    /\ SideInit

\* simple_web_monitor handlePongResponse on a pong whose id is pending
DecomposeDashboard ==
    /\ input.impl = "dashboard"
    /\ output = NoOutput
    /\ LET c == PongCalc(input.t0, input.t1, input.t2)
       IN  output' = [done |-> TRUE, calc |-> c, measurement |-> PongMeasurement(c)]
    /\ UNCHANGED <<input, sideVars, pyVars, envVars, pageVars>>

\* web_monitor page script handlePongResponse on a pong whose id is pending
DecomposePage ==
    /\ input.impl = "page"
    /\ output = NoOutput
    /\ LET c == PageCalc(input.t0, input.t1, input.t2)
       IN  output' = [done |-> TRUE, calc |-> c, measurement |-> PongMeasurement(c)]
    /\ UNCHANGED <<input, sideVars, pyVars, envVars, pageVars>>

\* web_monitor latency_collector from `t0_resp = data.get("t0")` to the append
latency_collector ==
    /\ input.impl = "latency_collector"
    /\ output = NoOutput
    /\ LET c == LoopCalc(input.t0, input.t0_resp, input.t1, input.t2)
           measurement == CollectorMeasurement(c)
       IN  /\ output' = [done |-> TRUE, calc |-> c, measurement |-> measurement]
           /\ latency_history' = HistoryAppend(latency_history, measurement)
    /\ UNCHANGED <<input, sideVars, conn, envVars, pageVars>>

\* operator_client latency_loop from `t0_resp = data.get("t0")` to the print
latency_loop ==
    /\ input.impl = "latency_loop"
    /\ output = NoOutput
    /\ LET c == LoopCalc(input.t0, input.t0_resp, input.t1, input.t2)
       IN  output' = [done |-> TRUE, calc |-> c, measurement |-> LoopPrinted(c)]
    /\ UNCHANGED <<input, sideVars, pyVars, envVars, pageVars>>

DecompNext ==
    \/ DecomposeDashboard
    \/ DecomposePage
    \/ latency_collector
    \/ latency_loop

\* The four decomposers, each run once on a probe drawn from DecompInputs.
SpecDecomp == DecompInit /\ [][DecompNext]_vars

\* -------------------------------------------------- the median on its own

\* Offsets a run may have collected, in milliseconds.
MedianOffsets == {9, 10, 11, 12, 1000}

RECURSIVE SampleLists(_)
SampleLists(n) ==
    IF n = 0 THEN {<<>>}
    ELSE LET shorter == SampleLists(n - 1)
         IN  shorter \cup { Append(l, [offset |-> Ms(o), rtt |-> Ms(2)]) :
                              l \in {x \in shorter : Len(x) = n - 1}, o \in MedianOffsets }

MedianInit ==
    /\ input \in {[impl |-> "synchronizeClocks", samples |-> l] :
                     l \in SampleLists(MaxMedianSamples)}
    /\ output = NoOutput
    /\ skew = 0
    /\ EnvInit
    /\ PageInit
    /\ PyInit
    /\ SideInit

\* the handlers of a run have pushed the samples of `input`
MedianCollect ==
    /\ ~output.done
    /\ clockSyncSamples = <<>>
    /\ input.samples # <<>>
    /\ clockSyncSamples' = input.samples
    /\ UNCHANGED <<decompVars, sideVars, pyVars, envVars, robotWs, toRobot, listeners, runs, timers,
                   clockOffset, clockSyncComplete, measurementInterval, pendingPings,
                   pingCount, measurements, syncLog, lastSample, lastPong>>

\* synchronizeClocks after its loop
MedianFinish ==
    /\ ~output.done
    /\ clockSyncSamples = input.samples
    /\ output' = [done |-> TRUE]
    /\ SetPage(FinishSync(Page))
    /\ UNCHANGED <<input, sideVars, pyVars, envVars>>

MedianNext == MedianCollect \/ MedianFinish

\* The end of synchronizeClocks, run once on a list of samples.
SpecMedian == MedianInit /\ [][MedianNext]_vars

\* ------------------------------------------------ the windows on their own

\* The n-th completed probe of a stream: sent n seconds after the first, its
\* round trip n * step milliseconds, the peer's stamp halfway.
WindowProbe(n, step) ==
    LET t0 == Sec(100) + Sec(n)
        rtt == MsToSec(Ms(n * step))
    IN  [t0 |-> t0, t1 |-> Number(t0 + rtt \div 2), t2 |-> t0 + rtt]

\* What the owner of the window stores for that probe.
WindowEntry(impl, n, step) ==
    LET probe == WindowProbe(n, step)
    IN  IF impl = "latency_collector"
        THEN CollectorMeasurement(LoopCalc(probe.t0, Number(probe.t0), probe.t1, probe.t2))
        ELSE PongMeasurement(PongCalc(probe.t0, probe.t1, probe.t2))

WindowInit ==
    /\ input \in {[impl |-> i, step |-> k] :
                     i \in {"latency_collector", "updateDisplay"}, k \in {1, 2}}
    /\ output = [done |-> FALSE, n |-> 0, views |-> 0, by |-> "none", view |-> <<>>]
    /\ skew = 0
    /\ EnvInit
    /\ PageInit
    /\ PyInit
    /\ SideInit

\* latency_collector stores the measurement of its next probe
WindowCollect ==
    /\ input.impl = "latency_collector"
    /\ output.n < MaxInserts
    /\ LET measurement == WindowEntry(input.impl, output.n + 1, input.step)
       IN  /\ latency_history' = HistoryAppend(latency_history, measurement)
           /\ output' = [output EXCEPT !.done = TRUE, !.n = @ + 1]
    /\ UNCHANGED <<input, sideVars, conn, envVars, pageVars>>

\* a client requests /api/history
ApiHistoryRequest ==
    /\ input.impl = "latency_collector"
    /\ output.views < MaxViews
    /\ output' = [output EXCEPT !.views = @ + 1, !.by = "api_history",
                                !.view = api_history(latency_history)]
    /\ UNCHANGED <<input, sideVars, pyVars, envVars, pageVars>>

\* a browser opens /ws and is sent the recent history
WebsocketConnect ==
    /\ input.impl = "latency_collector"
    /\ output.views < MaxViews
    /\ output' = [output EXCEPT !.views = @ + 1, !.by = "websocket_handler",
                                !.view = websocket_handler(latency_history)]
    /\ UNCHANGED <<input, sideVars, pyVars, envVars, pageVars>>

\* the dashboard's handlePongResponse hands the measurement of its next probe
\* to updateDisplay, whose updateTable renders the table anew
WindowDisplay ==
    /\ input.impl = "updateDisplay"
    /\ output.n < MaxInserts
    /\ LET measurement == WindowEntry(input.impl, output.n + 1, input.step)
       IN  /\ SetPage(updateDisplay(Page, measurement))
           /\ output' = [output EXCEPT !.done = TRUE, !.n = @ + 1, !.views = @ + 1,
                                       !.by = "updateTable",
                                       !.view = updateTable(measurements').recent]
    /\ UNCHANGED <<input, sideVars, pyVars, envVars>>

WindowNext ==
    \/ WindowCollect
    \/ WindowDisplay
    \/ ApiHistoryRequest
    \/ WebsocketConnect

\* One window, filled by its owner with the measurements of a stream of probes
\* and read by its views.
SpecWindow == WindowInit /\ [][WindowNext]_vars

\* ------------------------------------------- the Python loops on the wire

\* One text frame as json.loads sees it: not JSON ("invalid"), JSON that is
\* not an object, such as [1], 5 or null ("nonobject"), or an object, whose
\* fields are `data`. A type of "none" is an object without a type field, an
\* id of 0 an object without an id field.
Frame(json, data) == [json |-> json, data |-> data]

NoFields == Message("none", 0, null, null, 0)

\* How many frames one connection loop is given.
MaxFrames == 3

\* What a client can send to a robot server.
ServerFrames ==
    {Frame("invalid", NoFields), Frame("nonobject", NoFields), Frame("object", NoFields),
     Frame("object", Message("clock_sync", 0, Number(Sec(100)), null, 0))}
    \cup {Frame("object", Message("ping", id, t0, null, 0)) :
            id \in {0, 7}, t0 \in {Number(Sec(100)), null}}

\* What a robot server can send to latency_loop or latency_collector.
ClientFrames ==
    {Frame("invalid", NoFields), Frame("nonobject", NoFields), Frame("object", NoFields),
     Frame("object", Message("clock_sync_response", 0, null, null, Ms(100000)))}
    \cup {Frame("object", Message("pong", 0, t0, t1, 0)) :
            t0 \in {Number(Sec(100)), null},
            t1 \in {Number(Sec(100) + 50), null, NonNumeric}}

Servers == {"handle_connection", "handle_robot_connection"}

Clients == {"latency_loop", "latency_collector"}

FrameSeqs(frames) ==
    UNION {[1 .. n -> frames] : n \in 1 .. MaxFrames}

\* `await asyncio.sleep(1.0)` of latency_collector, in milliseconds
COLLECT_SLEEP == 1000

\* `await asyncio.sleep(5)` of latency_collector's except branch
RETRY_SLEEP == 5000

\* the default of operator_client's --interval, in milliseconds
INTERVAL == 1000

\* A server that has accepted a connection and sent nothing yet.
Serving ==
    [pc |-> "serving", n |-> 0, connections |-> 1, pings |-> 0, t0 |-> 0,
     sent |-> <<>>, printed |-> <<>>, closes |-> 0, reported |-> <<>>]

\* A client that has connected, sent its first ping at t0 and waits in recv.
Receiving(t0) ==
    [pc |-> "receiving", n |-> 0, connections |-> 1, pings |-> 1, t0 |-> t0,
     sent |-> <<>>, printed |-> <<>>, closes |-> 0, reported |-> <<>>]

WireInit ==
    /\ input \in {[impl |-> i, frames |-> f] : i \in Servers, f \in FrameSeqs(ServerFrames)}
                 \cup {[impl |-> i, frames |-> f] : i \in Clients, f \in FrameSeqs(ClientFrames)}
    /\ output = NoOutput
    /\ skew \in {0, Ms(500) + 6}
    /\ EnvInit
    /\ PageInit
    /\ latency_history = <<>>
    /\ SideInit
    /\ conn = IF input.impl \in Servers THEN Serving ELSE Receiving(MsToSec(Ms(StartTime)))

\* robot_server handle_connection on one parsed message: the reply, if any.
\* The pong has the fields type, t0 and t1 only.
handle_connection(data) ==
    IF data.type = "ping"
    THEN <<Message("pong", 0, data.t0, Number(RobotTime), 0)>>
    ELSE <<>>

\* The replies of a server to the frame it handles as n-th, each with the
\* server's time.time() at that moment.
Replies(n, msgs) ==
    [k \in 1 .. Len(msgs) |-> [re |-> n, clock |-> RobotTime, msg |-> msgs[k]]]

\* One iteration of `async for message in websocket`: json.loads fails and the
\* loop continues; data.get raises AttributeError on a non-object, which the
\* outer `except Exception` logs, and the handler returns; otherwise the
\* message is dispatched on its type.
ServeFrame(frame, replies) ==
    IF frame.json = "invalid"
    THEN [conn EXCEPT !.n = @ + 1]
    ELSE IF frame.json = "nonobject"
    THEN [conn EXCEPT !.n = @ + 1, !.pc = "ended"]
    ELSE [conn EXCEPT !.n = @ + 1, !.sent = @ \o Replies(conn.n + 1, replies)]

\* robot_server.py reads the next frame of its connection
RobotServerReceive ==
    /\ input.impl = "handle_connection"
    /\ conn.pc = "serving"
    /\ conn.n < Len(input.frames)
    /\ LET frame == input.frames[conn.n + 1]
       IN  conn' = ServeFrame(frame, handle_connection(frame.data))
    /\ now' = now + 1
    /\ UNCHANGED <<decompVars, sideVars, latency_history, skew, robotUp, outages, ticks, socks,
                   toBrowser, strays, pageVars>>

\* simple_web_monitor's robot server reads the next frame of its connection
EmbeddedServerReceive ==
    /\ input.impl = "handle_robot_connection"
    /\ conn.pc = "serving"
    /\ conn.n < Len(input.frames)
    /\ LET frame == input.frames[conn.n + 1]
       IN  conn' = ServeFrame(frame, handle_robot_connection(frame.data))
    /\ now' = now + 1
    /\ UNCHANGED <<decompVars, sideVars, latency_history, skew, robotUp, outages, ticks, socks,
                   toBrowser, strays, pageVars>>

\* The client is at the top of its inner `while True` at time t
\* (milliseconds): it stamps and sends a ping and waits in recv.
Resend(c, t) == [c EXCEPT !.pings = @ + 1, !.t0 = MsToSec(Ms(t))]

\* The client has handled a frame and is back at the top of `while True`.
NextPing(c, t) == Resend([c EXCEPT !.n = @ + 1], t)

\* Retry ending the collector where it should connect again.
Retry_GivesUp(c, what, t) ==
    [c EXCEPT !.pc = "returned", !.reported = Append(@, what)]

\* latency_collector's `except Exception`: the error is printed, and after the
\* sleep the outer `while True` connects again and the inner loop starts anew
\* at time t.
Retry(c, what, t) ==
    [Resend(c, t) EXCEPT !.connections = @ + 1, !.reported = Append(@, what)]

\* How many times the connection of a client loop is closed by its peer.
MaxCloses == 2

\* web_monitor latency_collector from the return of `msg = await
\* websocket.recv()` with `frame`, a millisecond from now, to the next recv.
CollectorHandles(frame) ==
    LET data == frame.data
        t2 == MsToSec(Ms(now + 1))
    IN  IF frame.json = "invalid" \/ (frame.json = "object" /\ data.type # "pong")
           THEN \* continue
                /\ conn' = NextPing(conn, now + 1)
                /\ now' = now + 1
                /\ UNCHANGED latency_history
           ELSE IF frame.json = "nonobject"
           THEN \* AttributeError, caught by `except Exception`: the connection
                \* is left, and after the sleep a new one is made
                /\ conn' = Retry([conn EXCEPT !.n = @ + 1], "Connection error",
                                 now + 1 + RETRY_SLEEP)
                /\ now' = now + 1 + RETRY_SLEEP
                /\ UNCHANGED latency_history
           ELSE /\ latency_history' = HistoryAppend(latency_history,
                        CollectorMeasurement(LoopCalc(conn.t0, data.t0, data.t1, t2)))
                /\ conn' = NextPing(conn, now + 1 + COLLECT_SLEEP)
                /\ now' = now + 1 + COLLECT_SLEEP

\* latency_collector receives the next of the frames it is given. The frame
\* arrives a millisecond after the ping was sent.
CollectorReceive ==
    /\ input.impl = "latency_collector"
    /\ conn.pc = "receiving"
    /\ conn.n < Len(input.frames)
    /\ CollectorHandles(input.frames[conn.n + 1])
    /\ UNCHANGED <<decompVars, sideVars, skew, robotUp, outages, ticks, socks, toBrowser, strays,
                   pageVars>>

\* recv of latency_collector raises ConnectionClosed: the peer has closed the
\* connection
CollectorClosed ==
    /\ input.impl = "latency_collector"
    /\ conn.pc = "receiving"
    /\ conn.closes < MaxCloses
    /\ conn' = Retry([conn EXCEPT !.closes = @ + 1], "Connection error",
                     now + 1 + RETRY_SLEEP)
    /\ now' = now + 1 + RETRY_SLEEP
    /\ UNCHANGED <<decompVars, sideVars, latency_history, skew, robotUp, outages, ticks,
                   socks, toBrowser, strays, pageVars>>

\* recv of latency_loop raises ConnectionClosed: `except
\* websockets.ConnectionClosed` prints it and latency_loop returns
LoopClosed ==
    /\ input.impl = "latency_loop"
    /\ conn.pc = "receiving"
    /\ conn.closes < MaxCloses
    /\ conn' = [conn EXCEPT !.closes = @ + 1, !.pc = "returned",
                            !.reported = Append(@, "Connection closed")]
    /\ now' = now + 1
    /\ UNCHANGED <<decompVars, sideVars, latency_history, skew, robotUp, outages, ticks,
                   socks, toBrowser, strays, pageVars>>

\* operator_client latency_loop from the return of `msg = await
\* websocket.recv()` with `frame`, a millisecond from now, to the next recv.
LoopHandles(frame) ==
    LET data == frame.data
        t2 == MsToSec(Ms(now + 1))
    IN  IF frame.json = "invalid" \/ (frame.json = "object" /\ data.type # "pong")
           THEN \* print, sleep, continue
                /\ conn' = NextPing(conn, now + 1 + INTERVAL)
                /\ now' = now + 1 + INTERVAL
           ELSE IF frame.json = "nonobject"
           THEN \* AttributeError: none of the except clauses of latency_loop
                \* takes it, the coroutine ends with the exception
                /\ conn' = [conn EXCEPT !.n = @ + 1, !.pc = "raised"]
                /\ now' = now + 1
           ELSE /\ conn' = [NextPing(conn, now + 1 + INTERVAL) EXCEPT
                               !.printed = Append(@, LoopPrinted(
                                   LoopCalc(conn.t0, data.t0, data.t1, t2)))]
                /\ now' = now + 1 + INTERVAL

\* latency_loop receives the next of the frames it is given
LoopReceive ==
    /\ input.impl = "latency_loop"
    /\ conn.pc = "receiving"
    /\ conn.n < Len(input.frames)
    /\ LoopHandles(input.frames[conn.n + 1])
    /\ UNCHANGED <<decompVars, sideVars, latency_history, skew, robotUp, outages, ticks, socks,
                   toBrowser, strays, pageVars>>

WireNext ==
    \/ RobotServerReceive
    \/ EmbeddedServerReceive
    \/ CollectorReceive
    \/ LoopReceive
    \/ CollectorClosed
    \/ LoopClosed

\* Each of the four Python connection loops, given a few frames by its peer.
SpecWire == WireInit /\ [][WireNext]_vars

\* ------------------------------------ a client loop and its peer, connected

\* How many pings a client loop sends to its peer.
MaxEchoPings == 4

\* How many messages that are no pong the peer sends of its own accord.
MaxExtras == 2

\* How many pings are lost on their way to a peer that stays connected.
MaxLost == 1

\* How long a client is followed, in milliseconds.
EchoHorizon == 6000

\* json.dumps(ping_msg) of the ping a client stamps with t0 (seconds)
PingFrame(t0) == Frame("object", Message("ping", 0, Number(t0), null, 0))

\* What the peer sends of its own accord: a text that is not JSON, or an
\* object of another type than pong.
ExtraFrames ==
    {Frame("invalid", NoFields),
     Frame("object", Message("status", 0, null, null, 0))}

EchoInit ==
    /\ input \in {[impl |-> i, peer |-> "handle_connection"] : i \in Clients}
    /\ output = NoOutput
    /\ skew = 0
    /\ EnvInit
    /\ PageInit
    /\ latency_history = <<>>
    /\ others = [k \in OtherKeys |-> <<>>]
    /\ chart = [labels |-> [from |-> "none", n |-> 0], robot |-> <<>>,
                others |-> [k \in OtherKeys |-> <<>>]]
    /\ conn = Receiving(MsToSec(Ms(StartTime)))
    /\ wire = [NoWire EXCEPT !.toServer = <<PingFrame(conn.t0)>>]
    /\ WebInit

\* The connection after the client has handled the frame at the head of
\* toClient: a client back in recv has sent its next ping; a collector that
\* has connected again has an empty connection with its first ping.
AfterReceive(w, c) ==
    IF c.pc # "receiving" THEN [w EXCEPT !.toClient = Tail(@)]
    ELSE IF c.connections > conn.connections
    THEN [w EXCEPT !.toServer = <<PingFrame(c.t0)>>, !.toClient = <<>>]
    ELSE [w EXCEPT !.toServer = Append(@, PingFrame(c.t0)), !.toClient = Tail(@)]

\* recv of latency_collector returns the oldest message of its connection
EchoCollectorReceive ==
    /\ input.impl = "latency_collector"
    /\ conn.pc = "receiving"
    /\ conn.pings < MaxEchoPings
    /\ wire.toClient # <<>>
    /\ CollectorHandles(Head(wire.toClient))
    /\ wire' = AfterReceive(wire, conn')
    /\ UNCHANGED <<decompVars, webVars, others, chart, skew, robotUp, outages, ticks, socks, toBrowser,
                   strays, pageVars>>

\* recv of latency_loop returns the oldest message of its connection
EchoLoopReceive ==
    /\ input.impl = "latency_loop"
    /\ conn.pc = "receiving"
    /\ conn.pings < MaxEchoPings
    /\ wire.toClient # <<>>
    /\ LoopHandles(Head(wire.toClient))
    /\ wire' = AfterReceive(wire, conn')
    /\ UNCHANGED <<decompVars, webVars, others, chart, latency_history, skew, robotUp, outages, ticks,
                   socks, toBrowser, strays, pageVars>>

\* robot_server.py reads the oldest ping of the connection and sends its pong
EchoServe ==
    /\ wire.toServer # <<>>
    /\ LET frame == Head(wire.toServer)
           replies == handle_connection(frame.data)
       IN  wire' = [wire EXCEPT !.toServer = Tail(@),
                                !.toClient = @ \o [k \in 1 .. Len(replies) |->
                                                      Frame("object", replies[k])]]
    /\ UNCHANGED <<decompVars, webVars, others, chart, pyVars, envVars, pageVars>>

\* The peer sends a message of its own accord.
EchoExtra ==
    /\ wire.extras < MaxExtras
    /\ \E frame \in ExtraFrames :
          wire' = [wire EXCEPT !.extras = @ + 1, !.toClient = Append(@, frame)]
    /\ UNCHANGED <<decompVars, webVars, others, chart, pyVars, envVars, pageVars>>

\* The oldest ping on its way is lost; the connection stays open.
PingLost ==
    /\ wire.lost < MaxLost
    /\ wire.toServer # <<>>
    /\ wire' = [wire EXCEPT !.lost = @ + 1, !.toServer = Tail(@)]
    /\ UNCHANGED <<decompVars, webVars, others, chart, pyVars, envVars, pageVars>>

\* A client with nothing to read stays in `await websocket.recv()`, which has
\* no timeout, while time passes.
RecvBlocks ==
    /\ conn.pc = "receiving"
    /\ wire.toClient = <<>>
    /\ now + INTERVAL <= StartTime + EchoHorizon
    /\ now' = now + INTERVAL
    /\ UNCHANGED <<decompVars, sideVars, pyVars, skew, robotUp, outages, ticks, socks,
                   toBrowser, strays, pageVars>>

EchoNext ==
    \/ EchoCollectorReceive
    \/ EchoLoopReceive
    \/ EchoServe
    \/ EchoExtra
    \/ PingLost
    \/ RecvBlocks

\* A client loop connected to robot_server.py, which answers each ping it
\* reads with one pong, over a connection that delivers in order.
SpecEcho == EchoInit /\ [][EchoNext]_vars

\* recv returns when there is a message, the server reads what has arrived,
\* and time does not stop.
EchoFairness ==
    /\ WF_vars(EchoCollectorReceive)
    /\ WF_vars(EchoLoopReceive)
    /\ WF_vars(EchoServe)
    /\ WF_vars(RecvBlocks)

SpecEchoLive == SpecEcho /\ EchoFairness

\* ------------------------------------- web_monitor and its /ws clients

\* How many measurements the collector records in one behaviour.
MaxRecords == 3

\* ws.send_str succeeds on a connection whose handler is still serving it.
Writable(hs, ws) == hs[ws].pc \in {"replaying", "listening"}

\* What the client of ws has been sent once send_str(m) has been called.
Deliver(hs, ws, m) ==
    IF Writable(hs, ws) THEN [hs EXCEPT ![ws].received = Append(@, m)] ELSE hs

\* One turn of the body of `for ws in websocket_clients` in
\* broadcast_to_clients: send_str, and `disconnected.add(ws)` when it raises.
Iterate(b, hs, ws) ==
    [b EXCEPT !.visited = @ \cup {ws},
              !.disconnected = IF Writable(hs, ws) THEN @ ELSE @ \cup {ws}]

\* latency_collector's `except Exception` taking an error raised by
\* broadcast_to_clients: the robot connection is left and made anew.
BroadcastRaises == Retry(conn, "Connection error", now + RETRY_SLEEP)

BroadcastInit ==
    /\ input = [impl |-> "web_monitor"]
    /\ output = NoOutput
    /\ skew = 0
    /\ EnvInit
    /\ PageInit
    /\ latency_history = <<>>
    /\ conn = Receiving(MsToSec(Ms(StartTime)))
    /\ SideInit

\* latency_collector from `latency_history.append(measurement)` to the first
\* `await ws.send_str` of broadcast_to_clients, or to its sleep when no client
\* is connected.
CollectorRecords ==
    /\ broadcast.pc = "idle"
    /\ conn.n < MaxRecords
    /\ LET measurement == WindowEntry("latency_collector", conn.n + 1, 1)
       IN  /\ latency_history' = HistoryAppend(latency_history, measurement)
           /\ conn' = [conn EXCEPT !.n = @ + 1]
           /\ IF websocket_clients = {}
              THEN /\ now' = now + COLLECT_SLEEP
                   /\ UNCHANGED <<broadcast, handlers>>
              ELSE /\ now' = now
                   /\ \E ws \in websocket_clients :
                         /\ broadcast' = Iterate(
                                [NoBroadcast EXCEPT !.pc = "sending", !.data = measurement,
                                                    !.used = Cardinality(websocket_clients),
                                                    !.members = websocket_clients],
                                handlers, ws)
                         /\ handlers' = Deliver(handlers, ws, measurement)
    /\ UNCHANGED <<decompVars, others, chart, wire, websocket_clients, proxy, skew, robotUp,
                   outages, ticks, socks, toBrowser, strays, pageVars>>

\* broadcast_to_clients resumes after `await ws.send_str` and asks the set's
\* iterator for the next connection. The iterator raises RuntimeError when the
\* set has another size than when the loop began; when the set was changed
\* and has the same size, which of its members are still visited is not
\* defined.
BroadcastResumes ==
    /\ broadcast.pc = "sending"
    /\ IF Cardinality(websocket_clients) # broadcast.used
       THEN /\ broadcast' = NoBroadcast
            /\ conn' = BroadcastRaises
            /\ now' = now + RETRY_SLEEP
            /\ UNCHANGED <<handlers, websocket_clients>>
       ELSE LET rest == websocket_clients \ broadcast.visited
            IN  \/ /\ \E ws \in rest :
                         /\ broadcast' = Iterate(broadcast, handlers, ws)
                         /\ handlers' = Deliver(handlers, ws, broadcast.data)
                   /\ UNCHANGED <<websocket_clients, conn, now>>
                \/ /\ rest = {} \/ websocket_clients # broadcast.members
                   \* websocket_clients -= disconnected, then the sleep
                   /\ websocket_clients' = websocket_clients \ broadcast.disconnected
                   /\ broadcast' = NoBroadcast
                   /\ now' = now + COLLECT_SLEEP
                   /\ UNCHANGED <<handlers, conn>>
    /\ UNCHANGED <<decompVars, others, chart, wire, proxy, latency_history, skew, robotUp,
                   outages, ticks, socks, toBrowser, strays, pageVars>>

\* websocket_handler from its start to its first await after
\* `websocket_clients.add(ws)`: the first send_str of the replay, or the
\* `async for` when there is no history.
WsConnects(ws) ==
    /\ handlers[ws].pc = "none"
    /\ LET recent == websocket_handler(latency_history)
       IN  handlers' = [handlers EXCEPT ![ws] =
               IF recent = <<>> THEN [@ EXCEPT !.pc = "listening"]
               ELSE [pc |-> IF Len(recent) = 1 THEN "listening" ELSE "replaying",
                     replay |-> Tail(recent), received |-> <<Head(recent)>>]]
    /\ websocket_clients' = websocket_clients \cup {ws}
    /\ UNCHANGED <<decompVars, others, chart, wire, broadcast, proxy, pyVars, envVars, pageVars>>

\* websocket_handler resumes in its replay loop and sends the next measurement
WsReplays(ws) ==
    /\ handlers[ws].pc = "replaying"
    /\ handlers' = [handlers EXCEPT ![ws] =
           [pc |-> IF Len(@.replay) = 1 THEN "listening" ELSE "replaying",
            replay |-> Tail(@.replay), received |-> Append(@.received, Head(@.replay))]]
    /\ UNCHANGED <<decompVars, others, chart, wire, websocket_clients, broadcast, proxy,
                   pyVars, envVars, pageVars>>

\* The browser closes its connection. A handler in `async for msg in ws`
\* leaves the loop, discards ws and returns; a handler in its replay has its
\* next send_str raise and ends without the discard.
WsCloses(ws) ==
    /\ handlers[ws].pc \in {"replaying", "listening"}
    /\ IF handlers[ws].pc = "listening"
       THEN /\ handlers' = [handlers EXCEPT ![ws].pc = "returned"]
            /\ websocket_clients' = websocket_clients \ {ws}
       ELSE /\ handlers' = [handlers EXCEPT ![ws].pc = "raised", ![ws].replay = <<>>]
            /\ UNCHANGED websocket_clients
    /\ UNCHANGED <<decompVars, others, chart, wire, broadcast, proxy, pyVars, envVars, pageVars>>

BroadcastNext ==
    \/ CollectorRecords
    \/ BroadcastResumes
    \/ \E ws \in WsIds : WsConnects(ws)
    \/ \E ws \in WsIds : WsReplays(ws)
    \/ \E ws \in WsIds : WsCloses(ws)

\* web_monitor's collector recording measurements while browsers open and
\* close /ws; every await is a place where another coroutine may run.
SpecBroadcast == BroadcastInit /\ [][BroadcastNext]_vars

\* ------------------------------------- the dashboard's proxy to the robot

\* How many messages the browser sends over one proxied connection.
MaxProxied == 2

\* What the page sends to /ws: pings and clock_sync requests for the robot,
\* and server_ping requests the proxy answers itself.
ProxiedMessages ==
    {Message("ping", 7, Number(Sec(100)), null, 0),
     Message("clock_sync", 0, Number(Sec(100)), null, 0),
     Message("server_ping", 7, null, null, 0)}

\* websocket_proxy_handler in `await asyncio.gather(...)`: both connections
\* open, browser_to_robot and robot_to_browser each waiting for a message.
Proxying ==
    [pc |-> "gathering", browser |-> "open", robot |-> "open",
     browser_to_robot |-> "reading", robot_to_browser |-> "reading",
     fromBrowser |-> <<>>, toRobot |-> <<>>, fromRobot |-> <<>>, toBrowser |-> <<>>,
     sent |-> 0, browser_connections |-> {1}]

ProxyInit ==
    /\ input = [impl |-> "websocket_proxy_handler"]
    /\ output = NoOutput
    /\ skew = 0
    /\ EnvInit
    /\ PageInit
    /\ PyInit
    /\ others = [k \in OtherKeys |-> <<>>]
    /\ chart = [labels |-> [from |-> "none", n |-> 0], robot |-> <<>>,
                others |-> [k \in OtherKeys |-> <<>>]]
    /\ wire = NoWire
    /\ websocket_clients = {}
    /\ handlers = [ws \in WsIds |-> NoHandler]
    /\ broadcast = NoBroadcast
    /\ proxy = Proxying

\* The handler leaves `async with websockets.connect(...)`, which closes the
\* robot-side connection, and its `finally` discards the browser connection.
Finish(x) ==
    [x EXCEPT !.pc = "finished", !.robot = "closed", !.browser_connections = {}]

\* asyncio.gather returns when both coroutines have returned and raises as
\* soon as one of them has raised; the handler then finishes.
EndOfGather(x) ==
    IF \/ x.browser_to_robot = "raised"
       \/ x.browser_to_robot = "returned" /\ x.robot_to_browser = "returned"
    THEN Finish(x)
    ELSE x

ProxyUnchanged ==
    UNCHANGED <<decompVars, others, chart, wire, websocket_clients, handlers, broadcast,
                pyVars, envVars, pageVars>>

\* the page sends a message
ProxyBrowserSends ==
    /\ proxy.browser = "open"
    /\ proxy.sent < MaxProxied
    /\ \E data \in ProxiedMessages :
          proxy' = [proxy EXCEPT !.sent = @ + 1, !.fromBrowser = Append(@, data)]
    /\ ProxyUnchanged

\* the page closes its connection, or is closed
ProxyBrowserCloses ==
    /\ proxy.browser = "open"
    /\ proxy' = [proxy EXCEPT !.browser = "closed", !.toBrowser = <<>>]
    /\ ProxyUnchanged

\* browser_to_robot takes the next message of the browser: a server_ping is
\* answered to the browser, anything else is forwarded to the robot; a send
\* on a closed connection raises.
BrowserToRobot ==
    /\ proxy.pc = "gathering"
    /\ proxy.browser_to_robot = "reading"
    /\ proxy.fromBrowser # <<>>
    /\ LET data == Head(proxy.fromBrowser)
           taken == [proxy EXCEPT !.fromBrowser = Tail(@)]
       IN  proxy' = EndOfGather(
               IF data.type = "server_ping"
               THEN IF proxy.browser = "open"
                    THEN [taken EXCEPT !.toBrowser =
                             Append(@, Message("server_ping_result", data.id, null, null, 0))]
                    ELSE [taken EXCEPT !.browser_to_robot = "raised"]
               ELSE IF proxy.robot = "open"
                    THEN [taken EXCEPT !.toRobot = Append(@, data)]
                    ELSE [taken EXCEPT !.browser_to_robot = "raised"])
    /\ ProxyUnchanged

\* `async for msg in ws_browser` ends: the browser has closed and nothing it
\* sent is left to read
BrowserToRobotEnds ==
    /\ proxy.pc = "gathering"
    /\ proxy.browser_to_robot = "reading"
    /\ proxy.browser = "closed"
    /\ proxy.fromBrowser = <<>>
    /\ proxy' = EndOfGather([proxy EXCEPT !.browser_to_robot = "returned"])
    /\ ProxyUnchanged

\* the robot server reads a forwarded message and replies
ProxiedRobotServes ==
    /\ proxy.robot = "open"
    /\ proxy.toRobot # <<>>
    /\ proxy' = [proxy EXCEPT !.toRobot = Tail(@),
                              !.fromRobot = @ \o handle_robot_connection(Head(proxy.toRobot))]
    /\ ProxyUnchanged

\* robot_to_browser takes the next message of the robot and sends it to the
\* browser; when the send raises, it breaks
RobotToBrowser ==
    /\ proxy.pc = "gathering"
    /\ proxy.robot_to_browser = "reading"
    /\ proxy.fromRobot # <<>>
    /\ LET taken == [proxy EXCEPT !.fromRobot = Tail(@)]
       IN  proxy' = EndOfGather(
               IF proxy.browser = "open"
               THEN [taken EXCEPT !.toBrowser = Append(@, Head(proxy.fromRobot))]
               ELSE [taken EXCEPT !.robot_to_browser = "returned"])
    /\ ProxyUnchanged

\* the robot server closes the connection: `async for msg in ws_robot` ends
\* once what the robot sent has been read
ProxiedRobotCloses ==
    /\ proxy.pc = "gathering"
    /\ proxy.robot = "open"
    /\ proxy' = [proxy EXCEPT !.robot = "closed", !.toRobot = <<>>]
    /\ ProxyUnchanged

RobotToBrowserEnds ==
    /\ proxy.pc = "gathering"
    /\ proxy.robot_to_browser = "reading"
    /\ proxy.robot = "closed"
    /\ proxy.fromRobot = <<>>
    /\ proxy' = EndOfGather([proxy EXCEPT !.robot_to_browser = "returned"])
    /\ ProxyUnchanged

ProxyNext ==
    \/ ProxyBrowserSends
    \/ ProxyBrowserCloses
    \/ BrowserToRobot
    \/ BrowserToRobotEnds
    \/ ProxiedRobotServes
    \/ RobotToBrowser
    \/ ProxiedRobotCloses
    \/ RobotToBrowserEnds

\* One proxied connection of the dashboard, from the moment both directions
\* are being served.
SpecProxy == ProxyInit /\ [][ProxyNext]_vars

\* A coroutine whose await is ready runs, and the robot server reads what it
\* is sent; the browser and the robot server close when they choose.
ProxyFairness ==
    /\ WF_vars(BrowserToRobot)
    /\ WF_vars(BrowserToRobotEnds)
    /\ WF_vars(ProxiedRobotServes)
    /\ WF_vars(RobotToBrowser)
    /\ WF_vars(RobotToBrowserEnds)

SpecProxyLive == SpecProxy /\ ProxyFairness

\* ------------------------- the integrated robot server and WebRTC signalling

\* What the dashboard sends to the integrated robot server, all JSON objects:
\* pings, clock_sync requests, ICE candidates, and offers with a session (id
\* 1) and without one (id 0).
IntegratedFrames ==
    {Frame("object", Message("ping", 7, Number(Sec(100)), null, 0)),
     Frame("object", Message("clock_sync", 0, Number(Sec(100)), null, 0)),
     Frame("object", Message("webrtc_ice", 1, null, null, 0)),
     Frame("object", Message("webrtc_offer", 1, null, null, 0)),
     Frame("object", Message("webrtc_offer", 0, null, null, 0)),
     Frame("object", Message("status", 0, null, null, 0))}

IntegratedInit ==
    /\ input \in {[impl |-> "handle_robot_connection", frames |-> f] :
                     f \in FrameSeqs(IntegratedFrames)}
    /\ output = NoOutput
    /\ skew = 0
    /\ EnvInit
    /\ PageInit
    /\ latency_history = <<>>
    /\ SideInit
    /\ conn = Serving

\* The offer was answered: the webrtc_answer is sent and the handler is back
\* at `async for message in websocket`.
OfferAnswered(c) ==
    [c EXCEPT !.pc = "serving",
              !.sent = @ \o Replies(c.n, <<Message("webrtc_answer", 1, null, null, 0)>>)]

\* OfferFails with the exception leaving the handler.
OfferFails_EndsHandler(c) == [c EXCEPT !.pc = "ended"]

\* `except Exception as exc` of the webrtc_offer branch: the webrtc_error is
\* sent and the handler is back at `async for message in websocket`.
OfferFails(c) ==
    [c EXCEPT !.pc = "serving",
              !.sent = @ \o Replies(c.n, <<Message("webrtc_error", 0, null, null, 0)>>)]

\* handle_robot_connection reads the next message. A webrtc_offer without a
\* session raises ValueError at once; one with a session is handed to the
\* peer connection, and the handler reads nothing until that is done. A
\* webrtc_ice is handled inside its own try and sends nothing.
IntegratedReceive ==
    /\ input.impl = "handle_robot_connection"
    /\ conn.pc = "serving"
    /\ conn.n < Len(input.frames)
    /\ LET frame == input.frames[conn.n + 1]
           read == [conn EXCEPT !.n = @ + 1]
       IN  conn' = IF frame.data.type = "webrtc_offer"
                   THEN IF frame.data.id = 0 THEN OfferFails(read)
                        ELSE [read EXCEPT !.pc = "negotiating"]
                   ELSE ServeFrame(frame, handle_robot_connection(frame.data))
    /\ now' = now + 1
    /\ UNCHANGED <<decompVars, sideVars, latency_history, skew, robotUp, outages, ticks, socks,
                   toBrowser, strays, pageVars>>

\* setRemoteDescription, createAnswer, setLocalDescription and the wait for
\* the ICE gathering are over: they have returned, or one of them has raised.
OfferHandled ==
    /\ conn.pc = "negotiating"
    /\ \/ conn' = OfferAnswered(conn)
       \/ conn' = OfferFails(conn)
    /\ now' = now + 1
    /\ UNCHANGED <<decompVars, sideVars, latency_history, skew, robotUp, outages, ticks, socks,
                   toBrowser, strays, pageVars>>

IntegratedNext ==
    \/ IntegratedReceive
    \/ OfferHandled

\* The integrated robot server on one connection that stays open, given
\* pings among WebRTC signalling and clock_sync requests.
SpecIntegrated == IntegratedInit /\ [][IntegratedNext]_vars

\* The handler runs when a message is there to read, and the calls into the
\* peer connection come back.
IntegratedFairness ==
    /\ WF_vars(IntegratedReceive)
    /\ WF_vars(OfferHandled)

SpecIntegratedLive == SpecIntegrated /\ IntegratedFairness

\* ------------------------------------- the other targets, chart and queries

\* The length of the longest of the seven arrays of `measurements`.
MaxLength(robot, os) ==
    LET lens == {Len(robot)} \cup {Len(os[k]) : k \in OtherKeys}
    IN  CHOOSE m \in lens : \A n \in lens : n <= m

\* updateChart: chart.data after the call. The labels are the robot's
\* timestamps when it has measurements and made-up times 3 s apart otherwise;
\* of the labels the model keeps where they come from and how many there are.
updateChart(ch, robot, os) ==
    IF MaxLength(robot, os) = 0 THEN ch
    ELSE [labels |-> IF Len(robot) > 0
                     THEN [from |-> "robot", n |-> Len(robot)]
                     ELSE [from |-> "generic", n |-> MaxLength(robot, os)],
          robot |-> [i \in 1 .. Len(robot) |-> robot[i].rtt_ms],
          others |-> [k \in OtherKeys |-> [i \in 1 .. Len(os[k]) |-> os[k][i].rtt_ms]]]

\* The entry updateBrowserLatency and updateServerLatency push.
TargetEntry(latency) == [timestamp |-> MsToSec(Ms(now)), rtt_ms |-> latency]

\* PushOther pushing onto both arrays of the key's target.
PushOther_BothSides(os, key, latency) ==
    LET entry == TargetEntry(latency)
        target == CHOOSE t \in PingTargets : key \in {t \o "Browser", t \o "Server"}
    IN  [k \in OtherKeys |->
            IF k \in {target \o "Browser", target \o "Server"}
            THEN IF Len(os[k]) + 1 > WINDOW THEN Tail(Append(os[k], entry))
                 ELSE Append(os[k], entry)
            ELSE os[k]]

\* updateBrowserLatency / updateServerLatency up to the shift: `measurements`
\* without robot after a push onto measurements[key]
PushOther(os, key, latency) ==
    LET pushed == Append(os[key], TargetEntry(latency))
    IN  [os EXCEPT ![key] = IF Len(pushed) > WINDOW THEN Tail(pushed) ELSE pushed]

\* A body of an HTTP response or a message sent: what kind it is and the
\* measurements or statistics in it.
Response(kind, body) == [kind |-> kind, body |-> body]

\* api_latest indexing without its test.
api_latest_Unguarded(history) ==
    IF Len(history) = 0 THEN Response("IndexError", <<>>)
    ELSE Response("measurement", <<history[Len(history)]>>)

\* web_monitor api_latest: the last measurement, or the empty object {}
api_latest(history) ==
    IF history # <<>> THEN Response("measurement", <<history[Len(history)]>>)
    ELSE Response("empty", <<>>)

RECURSIVE Sum(_)
Sum(s) == IF s = <<>> THEN 0 ELSE Head(s) + Sum(Tail(s))

Least(s) == CHOOSE x \in {s[i] : i \in 1 .. Len(s)} : \A j \in 1 .. Len(s) : x <= s[j]

Greatest(s) == CHOOSE x \in {s[i] : i \in 1 .. Len(s)} : \A j \in 1 .. Len(s) : x >= s[j]

\* Two decimal places of a millisecond.
TwoDecimals == Ms(1) \div 100

\* Python's round(x, 2) on a non-negative millisecond quantity: to the
\* nearest 0.01 ms, a tie to the even one.
PyRound2(x) ==
    LET q == x \div TwoDecimals
        r == x % TwoDecimals
    IN  IF 2 * r < TwoDecimals THEN q * TwoDecimals
        ELSE IF 2 * r > TwoDecimals THEN (q + 1) * TwoDecimals
        ELSE IF q % 2 = 0 THEN q * TwoDecimals ELSE (q + 1) * TwoDecimals

\* send_video_stream after its loop: the encoding_latency message it sends,
\* if any. Without samples it sends none. The statements are inside the try of
\* send_video_stream, whose except logs any exception.
EncodingStats(encoding_latencies) ==
    IF encoding_latencies # <<>>
    THEN Response("encoding_latency",
             <<[avg |-> PyRound2(Sum(encoding_latencies) \div Len(encoding_latencies)),
                min |-> PyRound2(Least(encoding_latencies)),
                max |-> PyRound2(Greatest(encoding_latencies)),
                samples |-> Len(encoding_latencies)]>>)
    ELSE Response("none", <<>>)

\* How many measurements the dashboard records in one run of the targets.
MaxTargetInserts == 2

\* Latencies of the other targets: 12 ms and 30.5 ms.
Latencies == {Ms(12), Ms(30) + 100}

\* An array of `measurements` that is full: 50 entries, a second apart.
FullWindow ==
    [i \in 1 .. WINDOW |->
        [timestamp |-> MsToSec(Ms(StartTime - 1000 * (WINDOW + 1 - i))), rtt_ms |-> Ms(10 + i)]]

\* The arrays that are full when the run starts.
Fills == {{}, {"eindhovenBrowser"}, {"sofiaServer"}, OtherKeys}

\* latency_history and encoding_latencies as the queries find them.
Histories ==
    {<<>>, <<WindowEntry("latency_collector", 1, 1)>>,
     <<WindowEntry("latency_collector", 1, 1), WindowEntry("latency_collector", 2, 1)>>}

Encodings == {<<>>, <<Ms(2)>>, <<Ms(2), Ms(3) + 1>>, <<Ms(4) + 3, Ms(1), Ms(2)>>}

TargetsInit ==
    /\ input \in {[impl |-> "targets", full |-> f, encoding_latencies |-> e] :
                     f \in Fills, e \in Encodings}
    /\ output = [done |-> FALSE, n |-> 0, by |-> "none", result |-> Response("none", <<>>)]
    /\ skew = 0
    /\ EnvInit
    /\ PageInit
    /\ latency_history \in Histories
    /\ conn = NoConn
    /\ others = [k \in OtherKeys |-> IF k \in input.full THEN FullWindow ELSE <<>>]
    /\ chart = updateChart([labels |-> [from |-> "none", n |-> 0], robot |-> <<>>,
                            others |-> [k \in OtherKeys |-> <<>>]],
                           <<>>, others)
    /\ wire = NoWire
    /\ WebInit

\* pingPublicServerFromBrowser(target): the image has loaded or failed after
\* `latency` milliseconds, updateBrowserLatency records it
pingPublicServerFromBrowser(target, latency) ==
    /\ output.n < MaxTargetInserts
    /\ others' = PushOther(others, target \o "Browser", latency)
    /\ chart' = updateChart(chart, measurements, others')
    /\ output' = [output EXCEPT !.done = TRUE, !.n = @ + 1, !.by = target \o "Browser"]
    /\ now' = now + 1
    /\ UNCHANGED <<input, webVars, pyVars, wire, skew, robotUp, outages, ticks, socks, toBrowser,
                   strays, pageVars>>

\* handleServerPingResponse(data): a latency of null is not recorded
handleServerPingResponse(target, latency) ==
    /\ output.n < MaxTargetInserts
    /\ IF latency # null
       THEN /\ others' = PushOther(others, target \o "Server", latency.val)
            /\ chart' = updateChart(chart, measurements, others')
       ELSE UNCHANGED <<others, chart>>
    /\ output' = [output EXCEPT !.done = TRUE, !.n = @ + 1, !.by = target \o "Server"]
    /\ now' = now + 1
    /\ UNCHANGED <<input, webVars, pyVars, wire, skew, robotUp, outages, ticks, socks, toBrowser,
                   strays, pageVars>>

\* handlePongResponse hands the measurement of a robot probe to updateDisplay,
\* which pushes it and calls updateChart
TargetsDisplay ==
    /\ output.n < MaxTargetInserts
    /\ SetPage(updateDisplay(Page, WindowEntry("updateDisplay", output.n + 1, 1)))
    /\ chart' = updateChart(chart, measurements', others)
    /\ output' = [output EXCEPT !.done = TRUE, !.n = @ + 1, !.by = "robot"]
    /\ now' = now + 1
    /\ UNCHANGED <<input, webVars, pyVars, others, wire, skew, robotUp, outages, ticks, socks,
                   toBrowser, strays>>

\* updateChart called on the arrays as they are
ChartRefresh ==
    /\ output.by # "updateChart"
    /\ chart' = updateChart(chart, measurements, others)
    /\ output' = [output EXCEPT !.by = "updateChart"]
    /\ UNCHANGED <<input, webVars, pyVars, others, wire, envVars, pageVars>>

\* a client requests /api/latest
ApiLatestRequest ==
    /\ output.by # "api_latest"
    /\ output' = [output EXCEPT !.by = "api_latest", !.result = api_latest(latency_history)]
    /\ UNCHANGED <<input, pyVars, sideVars, envVars, pageVars>>

\* send_video_stream leaves its loop with the encoding latencies it measured
StreamComplete ==
    /\ output.by # "send_video_stream"
    /\ output' = [output EXCEPT !.by = "send_video_stream",
                                !.result = EncodingStats(input.encoding_latencies)]
    /\ UNCHANGED <<input, pyVars, sideVars, envVars, pageVars>>

TargetsNext ==
    \/ \E target \in PingTargets, latency \in Latencies :
          pingPublicServerFromBrowser(target, latency)
    \/ \E target \in PingTargets, latency \in {Number(l) : l \in Latencies} \cup {null} :
          handleServerPingResponse(target, latency)
    \/ TargetsDisplay
    \/ ChartRefresh
    \/ ApiLatestRequest
    \/ StreamComplete

\* The dashboard's seven windows and its chart, and the two queries of the
\* Python side, from a start with some windows empty and some full.
SpecTargets == TargetsInit /\ [][TargetsNext]_vars

\* ------------------------------------------------------------------ claims
\* Claims C1, C6 .. C10 are about the decomposer and are checked under
\* SpecDecomp, where `input` is the probe and `output` what its handler left.
\* Claim C3 is checked under SpecMedian.

\* the split as first computed from the probe's own timestamps
RawUp == SecToMs(input.t1.val - input.t0)
RawDown == SecToMs(input.t2 - input.t1.val)
Recorded == output.measurement
Locals == output.calc
WithinHalfDecimal(x, y) == 2 * Abs(x - y) <= OneDecimal

\* C1 (as claimed): whenever the reply carries t1 and the computed |uplink| or
\* |downlink| exceeds 10000 ms, the reported uplink and the reported downlink
\* both equal the reported one_way_estimate, in every probe loop.
C1_FallbackOnSkew ==
    (output.done /\ IsNumber(input.t1) /\ SkewAnomaly(RawUp, RawDown))
        => /\ Recorded.uplink_ms = Number(Recorded.one_way_ms)
           /\ Recorded.downlink_ms = Number(Recorded.one_way_ms)

\* Claims C2, C4 and C5 are about the dashboard session and are checked under
\* Spec, where `lastPong` is the pong last decomposed by handlePongResponse
\* (with the synchroniser's state as it then stood) and `lastSample` the
\* clock-sync reply last accepted.

\* C2 (as claimed): a pong decomposed while an offset estimate is available
\* (the last synchronization run succeeded) and not replaced by the sanity
\* fallback has uplink = (t1 - offset) - t0 and downlink = t2 - (t1 - offset).
C2_OffsetAwareSplit ==
    (lastPong.done /\ lastPong.clockSyncComplete /\ IsNumber(lastPong.t1)
        /\ ~lastPong.calc.fallback)
        => LET t1_local == lastPong.t1.val - MsToSec(lastPong.clockOffset)
           IN  /\ lastPong.calc.uplink_ms = Number(SecToMs(t1_local - lastPong.t0))
               /\ lastPong.calc.downlink_ms = Number(SecToMs(lastPong.t2 - t1_local))

\* The offsets of the samples handed to the end of a synchronization run.
SampleOffsets == [k \in 1 .. Len(input.samples) |-> input.samples[k].offset]

\* The list of the example, in milliseconds.
ExampleOffsets == <<Ms(10), Ms(12), Ms(1000), Ms(11), Ms(9)>>

\* C3: the offset a synchronization run with at least one sample leaves in
\* clockOffset is the median of the run's offset samples: it is one of them, at
\* most half of them are strictly smaller and at most half strictly larger;
\* for the samples [10, 12, 1000, 11, 9] ms it is 11 ms.
C3_OffsetIsMedian ==
    (output.done /\ input.samples # <<>>)
        => LET n == Len(SampleOffsets)
               smaller == {k \in 1 .. n : SampleOffsets[k] < clockOffset}
               larger == {k \in 1 .. n : SampleOffsets[k] > clockOffset}
           IN  /\ clockSyncComplete
               /\ \E k \in 1 .. n : SampleOffsets[k] = clockOffset
               /\ 2 * Cardinality(smaller) <= n
               /\ 2 * Cardinality(larger) <= n
               /\ SampleOffsets = ExampleOffsets => clockOffset = Ms(11)

\* C3 happens: the run of the example has ended, its outlier left aside.
C3_Witness ==
    /\ output.done
    /\ input.samples # <<>>
    /\ SampleOffsets = ExampleOffsets
    /\ clockSyncSamples[Len(clockSyncSamples)].offset = Ms(1000)
    /\ clockOffset = Ms(11)

\* C4: for every clock-sync reply accepted at local time t1 for the request
\* sent at t0, rtt is t1 - t0 and the offset sample recorded is exactly
\* (server_time - rtt / 2) - t0 (stated doubled, so that nothing is divided).
C4_OffsetSample ==
    lastSample.done
        => /\ lastSample.rtt = lastSample.t1 - lastSample.t0
           /\ 2 * lastSample.offset
                = 2 * lastSample.server_time - lastSample.rtt - 2 * lastSample.t0

\* C4 happens: a reply that took time on its way was accepted from a robot
\* whose clock is ahead.
C4_Witness ==
    /\ lastSample.done
    /\ lastSample.rtt > 0
    /\ skew > 0
    /\ lastSample.offset > 0

\* C5 (as claimed): a pong decomposed after a synchronization run that
\* collected no sample, and before any later run succeeded, gets no
\* uplink/downlink split in the measurement handed to the display: only the
\* RTT figures are produced.
C5_NoSplitAfterFailedSync ==
    (lastPong.done /\ lastPong.syncLog = "failed")
        => /\ ~lastPong.clockSyncComplete
           /\ lastPong.measurement.uplink_ms = null
           /\ lastPong.measurement.downlink_ms = null

Pending(id) == \E e \in pendingPings : e.id = id

\* Neither the ping with this id nor its pong is on its way on a connection
\* that is still open: the echo can no longer arrive.
EchoLost(id) ==
    \A s \in SockIds :
        socks[s] = "OPEN" =>
            /\ \A k \in 1 .. Len(toRobot[s]) : toRobot[s][k].id # id
            /\ \A k \in 1 .. Len(toBrowser[s]) : toBrowser[s][k].id # id

\* C13 (as claimed): every pending probe whose echo can no longer arrive is
\* eventually removed from pendingPings.
C13_PendingEventuallyFreed ==
    \A id \in 1 .. MaxPings : (Pending(id) /\ EchoLost(id)) ~> ~Pending(id)

\* Claim C14 is checked under SpecPongs.

\* The step is the page receiving the pong at the head of connection s.
ReceivesPong(s) ==
    /\ socks[s] = "OPEN"
    /\ socks' = socks
    /\ toBrowser[s] # <<>>
    /\ Head(toBrowser[s]).type = "pong"
    /\ toBrowser' = [toBrowser EXCEPT ![s] = Tail(@)]

\* C14: whatever pongs arrive and in whatever order, a pong whose id matches
\* no pending probe adds no measurement and changes nothing on the page; a
\* pong of a pending probe adds one measurement and frees the id; and an id
\* once freed is never pending again, so no id is measured twice.
C14_PongsMatchedOnce ==
    [][ /\ \A s \in SockIds :
            ReceivesPong(s) =>
                LET id == Head(toBrowser[s]).id
                IN  IF Pending(id)
                    THEN /\ Len(measurements') = Len(measurements) + 1
                         /\ pendingPings' = {e \in pendingPings : e.id # id}
                    ELSE UNCHANGED pageVars
        /\ \A id \in 1 .. pingCount : ~Pending(id) => ~Pending(id)'
        /\ (\A s \in SockIds : ~ReceivesPong(s)) => measurements' = measurements
      ]_vars

\* C14 happens: one probe was sent and two stray pongs have arrived and been
\* handled besides its own; the probe has its one measurement and no more.
C14_Witness ==
    /\ pingCount = 1
    /\ strays = MaxStrays
    /\ \A s \in SockIds : toBrowser[s] = <<>> /\ toRobot[s] = <<>>
    /\ lastPong.done /\ lastPong.id = 1
    /\ pendingPings = {}
    /\ Len(measurements) = 1

\* C15 (as claimed): a synchronization run ends only after its 10 sample
\* attempts, and then with an offset or with the failure result.
C15_RunEndsWithResult ==
    \A r \in SockIds :
        runs[r].pc \notin {"none", "waiting", "delay"}
            => /\ runs[r].pc = "done"
               /\ runs[r].i = numSamples
               /\ syncLog \in {"complete", "failed"}

\* C16 (as claimed): a pong decomposed after a synchronization run that
\* collected no sample, and before a later run succeeded, is given
\* uplink = downlink = rtt / 2.
C16_FailedSyncHalvesRtt ==
    (lastPong.done /\ lastPong.syncLog = "failed" /\ IsNumber(lastPong.t1))
        => /\ lastPong.calc.uplink_ms = Number(lastPong.calc.rtt_ms \div 2)
           /\ lastPong.calc.downlink_ms = Number(lastPong.calc.rtt_ms \div 2)

\* C22: the robot's window grows only when a probe completes, and the
\* measurement of the probe that completes in a step, at the time its echo is
\* handled, goes to the end of the window, whatever the order in which the
\* probes were sent.
C22_CompletionOrder ==
    [][/\ lastPong' # lastPong
            => /\ lastPong'.t2 = MsToSec(Ms(now))
               /\ measurements' =
                     (IF Len(measurements) = WINDOW THEN Tail(measurements) ELSE measurements)
                        \o <<lastPong'.measurement>>
       /\ lastPong' = lastPong => measurements' = measurements]_vars

\* C22 happens: two probes were sent and both have completed, the one sent
\* first as the last; its measurement is the second in the window.
C22_Witness ==
    /\ pingCount = 2
    /\ pendingPings = {}
    /\ lastPong.done
    /\ lastPong.id = 1
    /\ Len(measurements) = 2
    /\ measurements[2] = lastPong.measurement

\* Run r of synchronizeClocks leaves its loop in this step and computes its
\* result.
Finishes(r) == runs'[r].pc = "done" /\ runs[r].pc # "done"

\* C25 (as claimed): the samples a synchronization run computes its offset
\* from were all collected by that run and are at most 10, also when another
\* run was started before it finished.
C25_RunUsesOwnSamples ==
    [][\A r \in SockIds :
          Finishes(r) => /\ Len(clockSyncSamples') <= numSamples
                         /\ \A k \in 1 .. Len(clockSyncSamples') :
                               clockSyncSamples'[k].run = r]_vars

\* The samples pushed in this step, when the step only pushes.
Pushed ==
    IF /\ Len(clockSyncSamples') > Len(clockSyncSamples)
       /\ SubSeq(clockSyncSamples', 1, Len(clockSyncSamples)) = clockSyncSamples
    THEN {clockSyncSamples'[k] : k \in Len(clockSyncSamples) + 1 .. Len(clockSyncSamples')}
    ELSE {}

\* C26: a sample is pushed for attempt i of a run only while the run is at
\* that attempt and the attempt is still open, so not after its timeout and
\* not for a later attempt; and the samples held never include two for the
\* same attempt of the same run.
C26_LateReplyNotCounted ==
    [][/\ \A x \in Pushed :
             /\ runs[x.run].i = x.i
             /\ runs[x.run].pc \notin {"delay", "done"}
       /\ \A j, k \in 1 .. Len(clockSyncSamples') :
             (/\ clockSyncSamples'[j].run = clockSyncSamples'[k].run
              /\ clockSyncSamples'[j].i = clockSyncSamples'[k].i) => j = k]_vars

\* C26 happens: the robot server was silent during the first attempt of the
\* run and has answered since; the connection has stayed open and every reply
\* has been delivered, the one to the first attempt after its timeout. The
\* run holds the sample of its second attempt and none of its first.
C26_Witness ==
    /\ socks = [s \in SockIds |-> IF s = 1 THEN "OPEN" ELSE "UNUSED"]
    /\ outages = 1
    /\ robotUp
    /\ toRobot[1] = <<>>
    /\ toBrowser[1] = <<>>
    /\ runs[1].pc = "delay"
    /\ runs[1].i = 1
    /\ Len(clockSyncSamples) = 1
    /\ clockSyncSamples[1].run = 1
    /\ clockSyncSamples[1].i = 1

\* Claims C31 and C32 are checked under SpecBroadcast.

\* The client of ws has been sent the measurement m.
HasReceived(hs, ws, m) == \E k \in 1 .. Len(hs[ws].received) : hs[ws].received[k] = m

\* C31 (as claimed): while a measurement is being broadcast, a client that
\* connects or disconnects does not make the collector leave its robot
\* connection, and when the broadcast ends every client that was connected
\* when it began and still is has been sent the measurement.
C31_BroadcastNotInterrupted ==
    [][broadcast.pc = "sending"
          => /\ conn'.connections = conn.connections
             /\ broadcast'.pc = "idle"
                   => \A ws \in broadcast.members :
                         Writable(handlers', ws) => HasReceived(handlers', ws, broadcast.data)]_vars

\* The place of a measurement in latency_history.
RecordedAt(m) == CHOOSE k \in 1 .. Len(latency_history) : latency_history[k] = m

\* C32 (as claimed): what a /ws client has been sent is in the order of
\* recording, with no measurement twice, also when measurements were recorded
\* during its replay.
C32_ClientSeesRecordedOrder ==
    \A ws \in WsIds :
        \A j, k \in 1 .. Len(handlers[ws].received) :
            j < k => RecordedAt(handlers[ws].received[j]) < RecordedAt(handlers[ws].received[k])

\* Claim C33 is checked under SpecProxy with ProxyFairness.

\* C33 (as claimed): once the browser side of a proxied connection has closed,
\* the proxy handler eventually finishes, with its robot-side connection
\* closed and the browser connection removed from browser_connections.
C33_ProxyFinishesAfterBrowserCloses ==
    (proxy.browser = "closed")
        ~> (proxy.pc = "finished" /\ proxy.robot = "closed" /\ proxy.browser_connections = {})

\* Claim C34 is checked under SpecIntegrated with IntegratedFairness.

\* The k-th message received is a ping.
PingAt(k) == k <= Len(input.frames) /\ input.frames[k].data.type = "ping"

\* The k-th message received has been answered with a pong that echoes it.
PongFor(k) ==
    \E j \in 1 .. Len(conn.sent) :
        /\ conn.sent[j].re = k
        /\ conn.sent[j].msg.type = "pong"
        /\ conn.sent[j].msg.t0 = input.frames[k].data.t0

MeasurementTimers == {t \in timers : t.kind = "interval"}

\* C35: whatever connections were opened and closed and whatever
\* synchronization runs have finished, at most one periodic measurement timer
\* is active, and it is the one measurementInterval names.
C35_OneMeasurementTimer ==
    /\ Cardinality(MeasurementTimers) <= 1
    /\ \A t \in MeasurementTimers : t.run = measurementInterval

\* C35 happens: the run of the first connection and the run of the second
\* have both finished and called startMeasurements, and one timer is active.
C35_Witness ==
    /\ runs[1].pc = "done"
    /\ runs[2].pc = "done"
    /\ measurementInterval = 2
    /\ Cardinality(MeasurementTimers) = 1

\* C36 (as claimed): a synchronization run that finishes, and so starts the
\* measurements, is the run of the current connection, and that connection is
\* open.
C36_MeasurementsFollowOwnSync ==
    [][\A r \in SockIds :
          (runs'[r].pc = "done" /\ runs[r].pc # "done")
              => /\ r = robotWs'
                 /\ socks'[r] = "OPEN"]_vars

\* The delay of the accepted request on its way to the server and of the reply
\* on its way back, in milliseconds on the browser's clock: the server's stamp
\* less the true offset `skew` is the browser's time at the stamp.
UplinkDelay == (lastSample.server_time - skew) - lastSample.t0
DownlinkDelay == lastSample.t1 - (lastSample.server_time - skew)

\* C37: when the server's stamp was taken between the send of the request and
\* the receipt of the reply, the offset sample differs from the true offset by
\* (uplink delay - downlink delay) / 2 (stated doubled), so by at most rtt / 2,
\* and is the true offset when the two delays are equal.
C37_SampleErrorIsHalfAsymmetry ==
    (lastSample.done /\ UplinkDelay >= 0 /\ DownlinkDelay >= 0)
        => /\ 2 * (lastSample.offset - skew) = UplinkDelay - DownlinkDelay
           /\ 2 * Abs(lastSample.offset - skew) <= lastSample.rtt
           /\ UplinkDelay = DownlinkDelay => lastSample.offset = skew

\* C37 happens: a request that took longer than its reply was accepted from a
\* robot whose clock is ahead, and the sample is off by half the difference.
C37_Witness ==
    /\ lastSample.done
    /\ skew > 0
    /\ DownlinkDelay > 0
    /\ UplinkDelay > DownlinkDelay
    /\ lastSample.offset > skew

\* Claims C28 and C29 are checked under SpecDecomp.

\* The measurement reports both legs.
ReportsBoth == IsNumber(Recorded.uplink_ms) /\ IsNumber(Recorded.downlink_ms)

\* C28 (as claimed): in every measurement that reports uplink and downlink,
\* the two legs before rounding add up to rtt, for the direct split and for
\* the rtt/2 fallback alike.
C28_LegsSumToRtt ==
    (output.done /\ ReportsBoth)
        => Locals.uplink_ms.val + Locals.downlink_ms.val = Locals.rtt_ms

\* C29 (as claimed): every recorded measurement has both legs or neither, and
\* it has both whenever the reply carries a numeric t1, also when a leg is
\* exactly 0.
C29_LegsBothOrNeither ==
    output.done
        => /\ IsNumber(Recorded.uplink_ms) <=> IsNumber(Recorded.downlink_ms)
           /\ IsNumber(input.t1) => ReportsBoth

\* Claims C27 and C30 are checked under SpecEcho, C27 with EchoFairness.

\* The ping the client waits for was lost: the client is in recv, and neither
\* a ping nor a message for the client is on its way.
EchoNeverArrives ==
    /\ conn.pc = "receiving"
    /\ wire.lost > 0
    /\ wire.toServer = <<>>
    /\ wire.toClient = <<>>

\* C27 (as claimed): when the echo of a probe of latency_loop or
\* latency_collector never arrives while the connection stays open, the loop
\* eventually gives that probe up and sends the next one.
C27_LostProbeAbandoned ==
    \A k \in 1 .. MaxEchoPings - 1 :
        (EchoNeverArrives /\ conn.pings = k) ~> (conn.pings > k)

\* The client completes a probe in this step: it records or prints a
\* measurement.
Completes ==
    \/ Len(latency_history') > Len(latency_history)
    \/ Len(conn'.printed) > Len(conn.printed)

\* C30 (as claimed): whatever the peer sends between its pongs, the pong a
\* single-in-flight loop completes a probe with echoes the t0 the loop
\* computes that probe's rtt from.
C30_PongAnswersProbe ==
    [][Completes => Head(wire.toClient).data.t0 = Number(conn.t0)]_vars

\* Claims C21 and C23 are checked under SpecTargets, where output.by names the
\* last query or the target last recorded and output.result the query's reply.

\* No array of `measurements` holds an entry.
AllEmpty == measurements = <<>> /\ \A k \in OtherKeys : others[k] = <<>>

\* C21: a query on an empty window gives a defined no-data result and raises
\* nothing: /api/latest on an empty history answers the empty object,
\* send_video_stream without samples sends no statistics, and updateChart on
\* empty arrays leaves the chart as it was made.
C21_EmptyWindowNoData ==
    /\ output.by = "api_latest"
          => /\ output.result.kind \in {"empty", "measurement"}
             /\ latency_history = <<>> => output.result = Response("empty", <<>>)
    /\ output.by = "send_video_stream"
          => /\ output.result.kind \in {"none", "encoding_latency"}
             /\ input.encoding_latencies = <<>> => output.result = Response("none", <<>>)
    /\ (output.by = "updateChart" /\ AllEmpty)
          => chart = [labels |-> [from |-> "none", n |-> 0], robot |-> <<>>,
                      others |-> [k \in OtherKeys |-> <<>>]]

\* C21 happens: /api/latest has been requested while the history was empty
\* and has answered the empty object.
C21_Witness ==
    /\ output.by = "api_latest"
    /\ latency_history = <<>>
    /\ output.result.kind = "empty"

\* The window of a target: measurements.robot or one of the six others.
WindowOf(key) == IF key = "robot" THEN measurements ELSE others[key]

\* C23: a step that records a measurement for one target leaves the window
\* of every other target as it was.
C23_OtherWindowsUntouched ==
    [][output'.n = output.n + 1
          => \A key \in OtherKeys \cup {"robot"} :
                key # output'.by => WindowOf(key)' = WindowOf(key)]_vars

\* C23 happens: with every other window full, a robot measurement and then a
\* browser ping of eindhoven have been recorded; eindhoven's browser window
\* has shifted, the robot's window holds its one entry and sofia's server
\* window is as it was.
C23_Witness ==
    /\ input.impl = "targets"
    /\ input.full = OtherKeys
    /\ output.n = 2
    /\ output.by = "eindhovenBrowser"
    /\ Len(measurements) = 1
    /\ others["eindhovenBrowser"] # FullWindow
    /\ Len(others["eindhovenBrowser"]) = WINDOW
    /\ others["sofiaServer"] = FullWindow
    /\ others["eindhovenServer"] = FullWindow

\* Claim C24 is checked under SpecWire, where conn.closes counts how often the
\* peer has closed the loop's connection.

\* The connection of the client loop is closed in this step.
Closes == conn'.closes = conn.closes + 1

Malformed(frame) == frame.json # "object" \/ frame.data.type = "none"

\* C17 (as claimed): whenever one of the four connection loops handles a
\* malformed frame, it adds no measurement (nothing is stored, printed or
\* sent) and goes on with the next frame on the same connection.
C17_MalformedDiscarded ==
    [][(conn'.n = conn.n + 1 /\ Malformed(input.frames[conn'.n]))
          => /\ latency_history' = latency_history
             /\ conn'.printed = conn.printed
             /\ conn'.sent = conn.sent
             /\ conn'.pc = conn.pc
             /\ conn'.connections = conn.connections]_vars

\* The replies a server has sent to the frame it handled as k-th.
RepliesTo(k) == {i \in 1 .. Len(conn.sent) : conn.sent[i].re = k}

\* C18 (as claimed): a robot server answers every ping it has handled with
\* exactly one pong that carries the ping's t0 and, when the ping had an id,
\* that id.
C18_PongEchoesT0AndId ==
    input.impl \in Servers =>
        \A k \in 1 .. conn.n :
            LET frame == input.frames[k]
            IN  (frame.json = "object" /\ frame.data.type = "ping")
                    => /\ Cardinality(RepliesTo(k)) = 1
                       /\ \A i \in RepliesTo(k) :
                            /\ conn.sent[i].msg.type = "pong"
                            /\ conn.sent[i].msg.t0 = frame.data.t0
                            /\ frame.data.id # 0 => conn.sent[i].msg.id = frame.data.id

\* C19 (as claimed): a robot server answers every clock_sync it has handled
\* with exactly one clock_sync_response whose client_t0 is the request's t0
\* and whose server_time is the server's clock at that moment in milliseconds.
C19_SyncRequestAnswered ==
    input.impl \in Servers =>
        \A k \in 1 .. conn.n :
            LET frame == input.frames[k]
            IN  (frame.json = "object" /\ frame.data.type = "clock_sync")
                    => /\ Cardinality(RepliesTo(k)) = 1
                       /\ \A i \in RepliesTo(k) :
                            /\ conn.sent[i].msg.type = "clock_sync_response"
                            /\ conn.sent[i].msg.t0 = frame.data.t0
                            /\ conn.sent[i].msg.server_time = SecToMs(conn.sent[i].clock)

\* Claim C11 is checked under SpecWindow, where output.n measurements have been
\* inserted, the k-th of them WindowEntry(input.impl, k, input.step).

\* The window the behaviour fills and its capacity.
TheWindow == IF input.impl = "latency_collector" THEN latency_history ELSE measurements
Capacity == IF input.impl = "latency_collector" THEN MAX_HISTORY ELSE WINDOW

\* C11: after any number of insertions the window holds at most its capacity
\* of entries and equals the most recent `capacity` inserted measurements in
\* insertion order (after 51 insertions into the capacity-50 window, the
\* 2nd to the 51st).
C11_WindowIsMostRecent ==
    LET held == IF output.n < Capacity THEN output.n ELSE Capacity
    IN  /\ Len(TheWindow) <= Capacity
        /\ TheWindow = [i \in 1 .. held |->
                          WindowEntry(input.impl, output.n - held + i, input.step)]

\* C11 happens: 51 measurements have been inserted into the capacity-50
\* window, which holds the last 50 and no longer the first.
C11_Witness ==
    /\ input.impl = "updateDisplay"
    /\ output.n = WINDOW + 1
    /\ Len(measurements) = WINDOW
    /\ measurements[1] = WindowEntry(input.impl, 2, input.step)
    /\ measurements[1] # WindowEntry(input.impl, 1, input.step)
    /\ measurements[WINDOW] = WindowEntry(input.impl, WINDOW + 1, input.step)

\* Claim C20 is checked under SpecWindow, where output.view is what the view
\* named by output.by returned when it last read the window.

\* A view has read the window in this step.
ViewTaken == output'.views = output.views + 1

\* `view` is the last n entries of `window` (all of them when there are
\* fewer), the most recent first.
NewestFirst(view, window, n) ==
    /\ Len(view) = IF Len(window) < n THEN Len(window) ELSE n
    /\ \A i \in 1 .. Len(view) : view[i] = window[Len(window) + 1 - i]

\* `view` is the last n entries of `window` in the order of insertion.
OldestFirst(view, window, n) ==
    /\ Len(view) = IF Len(window) < n THEN Len(window) ELSE n
    /\ \A i \in 1 .. Len(view) : view[i] = window[Len(window) - Len(view) + i]

\* The dashboard's window after the insertion of this step, had no view
\* touched it.
Inserted ==
    LET pushed == Append(measurements, WindowEntry(input.impl, output'.n, input.step))
    IN  IF Len(pushed) > WINDOW THEN Tail(pushed) ELSE pushed

\* C20 (as claimed): every view of a window (the dashboard's table, the
\* history endpoint, the history sent to a new socket client) returns the last
\* n measurements most recent first, and reading does not change the window.
C20_RecentIsNewestFirst ==
    [][ViewTaken =>
          /\ output'.by = "updateTable"
                => /\ NewestFirst(output'.view, measurements', ROWS)
                   /\ measurements' = Inserted
          /\ output'.by = "api_history"
                => /\ NewestFirst(output'.view, latency_history, API_HISTORY)
                   /\ latency_history' = latency_history
          /\ output'.by = "websocket_handler"
                => /\ NewestFirst(output'.view, latency_history, WS_HISTORY)
                   /\ latency_history' = latency_history]_vars

\* C20 (amended): the dashboard's table shows the last 10 measurements most
\* recent first; the history endpoint returns the last 50 and a new socket
\* client is sent the last 20, both oldest first; none of the three changes
\* the window it reads.
C20_RecentViews ==
    [][ViewTaken =>
          /\ output'.by = "updateTable"
                => /\ NewestFirst(output'.view, measurements', ROWS)
                   /\ measurements' = Inserted
          /\ output'.by = "api_history"
                => /\ OldestFirst(output'.view, latency_history, API_HISTORY)
                   /\ latency_history' = latency_history
          /\ output'.by = "websocket_handler"
                => /\ OldestFirst(output'.view, latency_history, WS_HISTORY)
                   /\ latency_history' = latency_history]_vars

\* C20 happens: the table has been rendered from a full window of 50 and
\* shows 10 rows, the newest measurement on top and the 10th newest at the
\* bottom.
C20_Witness ==
    /\ output.by = "updateTable"
    /\ Len(measurements) = WINDOW
    /\ Len(output.view) = ROWS
    /\ output.view[1] = measurements[WINDOW]
    /\ output.view[ROWS] = measurements[WINDOW + 1 - ROWS]
    /\ output.view[1] # output.view[ROWS]

C7_OneWayIsHalfRtt ==
    output.done
        => /\ 2 * Locals.one_way_ms = SecToMs(input.t2 - input.t0)
           /\ WithinHalfDecimal(Recorded.one_way_ms, SecToMs(input.t2 - input.t0) \div 2)

\* C7 witness: the dashboard applied the skew fallback to a 10 ms round trip.
C7_Witness ==
    /\ output.done
    /\ input.impl = "dashboard"
    /\ Locals.fallback
    /\ Locals.rtt_ms = Ms(10)
    /\ Recorded.one_way_ms = Ms(5)

Scenario9 ==
    /\ input.t0 = Sec(100) /\ input.t0_resp = Number(Sec(100))
    /\ input.t1 = Number(Sec(100) + 500) /\ input.t2 = Sec(100) + 1000

Scenario10 ==
    /\ input.impl = "dashboard"
    /\ input.t0 = Sec(100)
    /\ input.t1 = Number(Sec(100) + 50500) /\ input.t2 = Sec(100) + 1000

\* C10 (as claimed): for t0 = 100.000, t1 = 100.505, t2 = 100.010 the fallback
\* is applied and the measurement reports uplink = downlink = 5 ms.
C10_SkewScenarioFallsBack ==
    (output.done /\ Scenario10)
        => /\ Locals.fallback
           /\ Recorded.uplink_ms = Number(Ms(5))
           /\ Recorded.downlink_ms = Number(Ms(5))

\* C10 (amended): for t0 = 100.000, t1 = 100.505, t2 = 100.010 the naive
\* uplink of 505 ms does not exceed the 10000 ms sanity bound, no fallback is
\* applied, and the measurement reports rtt 10 ms, one-way 5 ms, uplink 505 ms
\* and downlink -495 ms.
C10_SkewScenarioKeepsSplit ==
    (output.done /\ Scenario10)
        => /\ ~Locals.fallback
           /\ Recorded = [rtt_ms |-> Ms(10), one_way_ms |-> Ms(5),
                          uplink_ms |-> Number(Ms(505)),
                          downlink_ms |-> Number(-Ms(495))]

\* C10 witness: the dashboard handled the pong of the skew scenario.
C10_Witness ==
    /\ output.done
    /\ Scenario10
    /\ Recorded.uplink_ms = Number(Ms(505))

====
